---------------------------- MODULE Spec2Model ----------------------------
(***************************************************************************)
(* PropWatch-Cyprus: the source collectors of src/scraping and the retry   *)
(* loop they use, as one state machine.                                    *)
(*                                                                         *)
(* A run is one call of one entry point: _gdelt_query called directly,     *)
(* scrape_archived (document search), scrape_channels (message stream) or  *)
(* scrape_all_tier1 (sitemap crawl).  A step of the machine is one thing   *)
(* the code does to the outside world (a sleep, an outbound call, a file   *)
(* write) together with the local computation that follows it up to the    *)
(* next such point.  The environment (the responses of the remote APIs,    *)
(* the outcome of a file write) is chosen with \E.                         *)
(*                                                                         *)
(* Times are in milliseconds.  A record is abstracted to its merge key     *)
(* (channel, message_id) and its views column.                             *)
(*                                                                         *)
(* The processing stages that follow the collectors (text_cleaning.py,     *)
(* filtering.py, lemmatization.py, frequency.py) are functions of their    *)
(* arguments; each is studied under a specification of its own (SpecClean, *)
(* SpecFilter, SpecLemma, SpecNgrams) whose initial states draw the        *)
(* arguments from bounded sets and whose actions apply the functions.  A   *)
(* text is the sequence of its characters.                                 *)
(***************************************************************************)
EXTENDS Integers, Sequences, FiniteSets, TLC

\* ---------------------------------------------------------------- bounds
MaxSources == 2      \* sources (domains, channels, config entries) per run
MaxHits    == 2      \* hits / messages / sitemap entries one source returns
MaxRetries == 3      \* retries argument of a direct _gdelt_query call
MaxBackoff == 2      \* base_backoff argument of a direct call, in seconds
MaxRuns    == 2      \* runs over the same output files (SpecRerun only)
MaxChildren == 1     \* child sitemaps of a sitemap index inside the study window
MaxArticles == 1     \* scrape_news_domain's max_articles argument
MaxFragments == 3    \* pieces a raw text of the cleaning stage is made of
MaxRows    == 3      \* rows of the DataFrame passed to filter_messages
MaxCalls   == 3      \* lemmatization calls made in one process
MaxTokens  == 2      \* tokens of the text a lemmatization call is given
MaxLists   == 2      \* rows of the lemmas column given to compute_ngrams
MaxListLen == 2      \* tokens of one row of the lemmas column

\* ------------------------------------------------------ program constants
DefaultRetries   == 4       \* gdelt.py: retries: int = 4
DefaultBackoffMs == 12000   \* gdelt.py: base_backoff: float = 12.0
DelayMs          == 1500    \* gdelt.py: delay: float = 1.5
DefaultTopN      == 100     \* frequency.py: top_n: int = 100
FetchDelayMs     == 1500    \* news.py: fetch_delay: float = 1.5
SitemapDelayMs   == 2000    \* news.py: sitemap_delay: float = 2.0
FloodMarginMs    == 5000    \* telegram.py: e.seconds + 5
AntiBanMinMs     == 10000   \* telegram.py: random.randint(10, 25)
AntiBanMaxMs     == 25000

Sources == 1..MaxSources

\* e.seconds of a FloodWaitError: a short wait, and one longer than any pause of
\* the collector's own
FloodSeconds == {1, 60}

\* msg.views or 0, as read when the message is scraped
ViewCounts == {0, 7}

\* URLs a search hit can carry; "" is a hit without a url (article.get("url", "")).
Urls == {"", "u1"}

\* <loc> values of sitemap entries, and those among them that hold a word of
\* _CYPRUS_URL_HINTS
NewsUrls == {"rt.com/cyprus-talks", "rt.com/sport"}
HintUrls == {"rt.com/cyprus-talks"}

\* an output file: absent, or the rows the last to_csv wrote
NoFile == [exists |-> FALSE, rows |-> <<>>]

VARIABLES
    pc,          \* position of the running entry point
    collector,   \* "none" | "query" | "gdelt" | "telegram" | "news"
    runs,        \* number of runs started so far
    persisted,   \* the output files as the previous run left them
    \* the clock, as the code's sleeps and calls see it
    sinceCall,   \* ms slept since the last outbound call (or the start) of this run
    lastSleep,   \* ms of the sleep that immediately precedes this point (0: none)
    \* _gdelt_query
    retries, base_backoff, attempt, nreq, succeeded, articles,
    resp,        \* how the request of this attempt ended, while it is being handled:
                 \* "none" | "ok" | "429" | "http_error" | "request_error"
    \* the collectors' loops
    nsrc,        \* number of configured sources of this run
    src,         \* the source in progress (1..nsrc)
    fetch_text,  \* scrape_archived's fetch_text argument
    todo,        \* hits of the source in progress still to process
    text,        \* gdelt: text of the hit in progress, "" | "live" | "archive" | "title";
                 \* news: outcome of the article in progress, "raised" | "skipped" | "kept"
    rows,        \* rows / all_data: records collected so far in this run
    attempted,   \* sources whose processing has begun in this run
    flood,       \* seconds of the FloodWaitError last caught and not yet followed
                 \* by a call (-1: none)
    interrupted, \* history: per error raised inside the message loop, the channel
                 \* and all_data at that moment
    skips,       \* config entries without a sitemap_index or domain key
    children,    \* child sitemaps still to fetch
    found,       \* all_entries of _collect_article_urls
    frames,      \* all_frames of scrape_all_tier1
    \* the output files
    domainCsv,   \* ARCHIVED_RAW_DIR/<domain>_raw.csv, per source
    mergedCsv,   \* ARCHIVED_RAW_DIR/tier1_archived_raw.csv
    rawCsv,      \* RAW_CSV (corpus_raw.csv), the message-stream output
    \* the processing stages (preprocessing/, analysis/), each run on its own
    stage,       \* position of the processing stage under study ("idle": none)
    \* text_cleaning.py
    text_in,     \* the raw text column of one row
    text_cleaned,\* clean_text(text_in), once computed
    text_again,  \* clean_text(text_cleaned), once a cleaned file is cleaned again
    script_type, \* classify_script(text_cleaned), once computed
    \* filtering.py: filter_messages
    filter_df,   \* the DataFrame passed in: rows of message_id, text, text_cleaned
    text_col,    \* the text_col argument
    steps,       \* per stage run so far: its name and the index labels that remain
    tag_col,     \* the text_col argument of tag_categories
    tagged,      \* the DataFrame tag_categories returned: message_id and indicators
    \* lemmatization.py, as the module stands once imported
    NLP_EL,      \* _NLP_EL: 0 for None, else the instance _get_el_pipeline stored
    built,       \* per model, the number of pipelines constructed in this process
    call,        \* the lemmatization call made last and how it ended; call.doc is
                 \* what a pipeline makes of the text the calls are given
    \* frequency.py
    lemmas_series, \* the lemmas column: one list of tokens per row
    ngram_n,     \* the n argument of compute_ngrams
    min_freq,    \* the min_freq argument
    ngram_rows,  \* the rows of the DataFrame returned: <<key, count>>
    top_n,       \* the top_n argument of word_frequency
    word_rows,   \* the rows of the DataFrame word_frequency returned: <<word, count>>
    \* scrape_news_domain, one call on the entries its sitemaps listed
    news_entries,    \* all_entries, the entries discovered: [url, title]
    max_articles,    \* the safety cap
    cyprus_entries,  \* what is left of cyprus_entries[:max_articles] to iterate
    entry,           \* the entry of the current iteration
    article_text,    \* text
    domain_rows,     \* rows
    fetched,         \* history: the entries trafilatura.fetch_url was called for
    tested,          \* history: the has_inclusion calls, [url, text, ok]
    \* scrape_archived, the loop over the articles one query returned
    hit_list,        \* articles: [url, title]
    with_text,       \* the fetch_text argument
    hits_left,       \* the articles still to iterate
    hit,             \* article
    live,            \* _fetch_text, attempt 1: "none" | "raised" | "empty" | "text"
    archive,         \* _fetch_text, attempt 2: "none" | "raised" | "empty" | "text"
    hit_text,        \* text
    hit_rows         \* the rows appended, each with the attempts made for it

clockVars == <<sinceCall, lastSleep>>
queryVars == <<retries, base_backoff, attempt, nreq, succeeded, articles, resp>>
loopVars  == <<nsrc, src, fetch_text, todo, text, rows, attempted>>
tgVars    == <<flood, interrupted>>
newsVars  == <<skips, children, found, frames>>
fileVars  == <<domainCsv, mergedCsv, rawCsv>>
collectorVars == <<pc, collector, runs, persisted, clockVars, queryVars, loopVars, tgVars,
                   newsVars, fileVars>>
cleanVars == <<text_in, text_cleaned, text_again, script_type>>
filterVars == <<filter_df, text_col, steps, tag_col, tagged>>
lemmaVars == <<NLP_EL, built, call>>
freqVars == <<lemmas_series, ngram_n, min_freq, ngram_rows, top_n, word_rows>>
domainVars ==
    <<news_entries, max_articles, cyprus_entries, entry, article_text, domain_rows, fetched, tested>>
hitVars == <<hit_list, with_text, hits_left, hit, live, archive, hit_text, hit_rows>>
stageVars == <<stage, cleanVars, filterVars, lemmaVars, freqVars, domainVars, hitVars>>
vars == <<collectorVars, stageVars>>

\* ------------------------------------------------------------ the clock
\* time.sleep(ms) / asyncio.sleep
Sleep(ms) ==
    /\ sinceCall' = sinceCall + ms
    /\ lastSleep' = ms

\* an outbound network call (requests.get, trafilatura.fetch_url, a Telethon request)
OutboundCall ==
    /\ sinceCall' = 0
    /\ lastSleep' = 0

\* ------------------------------------------------------------- records
\* hashlib.md5(url.encode()).hexdigest(): one digest per url (collisions aside)
Md5(url) == "md5:" \o url

MessageId(url) == IF url # "" THEN Md5(url) ELSE ""

Record(channel, id, views) == [channel |-> channel, message_id |-> id, views |-> views]

\* [r for r in rows if r["channel"] == domain]
RowsOf(rs, channel) == SelectSeq(rs, LAMBDA r : r.channel = channel)

Range(f) == {f[i] : i \in DOMAIN f}

Count(r, f) == Cardinality({i \in DOMAIN f : f[i] = r})

RECURSIVE SeqsUpTo(_, _)
SeqsUpTo(S, n) ==
    IF n = 0 THEN {<<>>}
    ELSE LET shorter == SeqsUpTo(S, n - 1)
         IN  shorter \cup {Append(s, x) : s \in {t \in shorter : Len(t) = n - 1}, x \in S}

\* what the search endpoint can answer: up to MaxHits hits, each with a url or none
HitLists == SeqsUpTo(Urls, MaxHits)

\* ---------------------------------------------------------------- Init
CollectorsIdle ==
    /\ pc = "idle"
    /\ collector = "none"
    /\ runs = 0
    /\ sinceCall = 0 /\ lastSleep = 0
    /\ retries = 0 /\ base_backoff = 0 /\ attempt = 0 /\ nreq = 0
    /\ succeeded = FALSE /\ articles = <<>> /\ resp = "none"
    /\ nsrc = 0 /\ src = 0 /\ fetch_text = TRUE /\ todo = <<>> /\ text = ""
    /\ rows = <<>> /\ attempted = {}
    /\ flood = -1 /\ interrupted = <<>>
    /\ skips = {} /\ children = 0 /\ found = <<>> /\ frames = <<>>
    /\ domainCsv = [d \in Sources |-> NoFile]
    /\ mergedCsv = NoFile
    /\ rawCsv = NoFile
    /\ persisted = [domain |-> [d \in Sources |-> NoFile], merged |-> NoFile, raw |-> NoFile]

\* no processing stage is under study
CleanIdle ==
    /\ text_in = <<>> /\ text_cleaned = <<>> /\ text_again = <<>> /\ script_type = "none"

FilterIdle ==
    /\ filter_df = <<>> /\ text_col = "text" /\ steps = <<>>
    /\ tag_col = "text" /\ tagged = <<>>

\* the models a lemmatization call can load: the stanza pipeline of
\* _get_el_pipeline, and those of _SCRIPT_MODEL_DEFAULTS.  (_get_ru_pipeline is
\* called only by the first lemmatize_column, which the second one replaces.)
Models == {"stanza:el", "ru_core_news_lg", "el_core_news_lg", "en_core_web_lg"}

NoCall ==
    [n |-> 0, fn |-> "none", model |-> "none", instance |-> 0, outcome |-> "none",
     doc |-> <<>>, lemmas |-> <<>>]

LemmaIdle ==
    /\ NLP_EL = 0 /\ built = [m \in Models |-> 0] /\ call = NoCall

FreqIdle ==
    /\ lemmas_series = <<>> /\ ngram_n = 2 /\ min_freq = 5 /\ ngram_rows = <<>>
    /\ top_n = DefaultTopN /\ word_rows = <<>>

NoEntry == [url |-> <<>>, title |-> <<>>]

DomainIdle ==
    /\ news_entries = <<>> /\ max_articles = 0 /\ cyprus_entries = <<>>
    /\ entry = NoEntry /\ article_text = <<>> /\ domain_rows = <<>>
    /\ fetched = <<>> /\ tested = <<>>

NoHit == [url |-> "", title |-> ""]

HitIdle ==
    /\ hit_list = <<>> /\ with_text = TRUE /\ hits_left = <<>> /\ hit = NoHit
    /\ live = "none" /\ archive = "none" /\ hit_text = "" /\ hit_rows = <<>>

StagesIdle ==
    /\ stage = "idle"
    /\ CleanIdle
    /\ FilterIdle
    /\ LemmaIdle
    /\ FreqIdle
    /\ DomainIdle
    /\ HitIdle

Init == CollectorsIdle /\ StagesIdle

\* the state a run starts from: everything but the files and the run counter
FreshRun ==
    /\ runs' = runs + 1
    /\ persisted' = persisted /\ UNCHANGED stageVars
    /\ sinceCall' = 0 /\ lastSleep' = 0
    /\ todo' = <<>> /\ text' = "" /\ rows' = <<>>
    /\ flood' = -1 /\ interrupted' = <<>>
    /\ skips' = {} /\ children' = 0 /\ found' = <<>> /\ frames' = <<>>

\* --------------------------------------------------------- _gdelt_query
\* for attempt in range(1, retries + 1): the loop is entered at attempt 1, or
\* falls through to `return []` when retries < 1
EnterQuery(r, b) ==
    /\ retries' = r
    /\ base_backoff' = b
    /\ attempt' = 1
    /\ nreq' = 0 /\ succeeded' = FALSE /\ articles' = <<>> /\ resp' = "none"
    /\ pc' = IF r >= 1 THEN "q_sleep" ELSE "q_returned"

\* a direct call _gdelt_query(domain, retries = r, base_backoff = b)
StartQuery ==
    /\ pc = "idle"
    /\ \E r \in 0..MaxRetries, b \in 1..MaxBackoff : EnterQuery(r, b * 1000)
    /\ collector' = "query"
    /\ FreshRun
    /\ nsrc' = 0 /\ src' = 0 /\ attempted' = {}
    /\ UNCHANGED <<fetch_text, fileVars>>

\* faulty variant, for contrast: a backoff only before the retries, none before the first attempt
BackoffWaitRetriesOnly == base_backoff * (attempt - 1)

\* wait = base_backoff * attempt
BackoffWait == base_backoff * attempt

\* time.sleep(wait)
QSleep ==
    /\ pc = "q_sleep"
    /\ Sleep(BackoffWait)
    /\ pc' = "q_request"
    /\ resp' = "none"
    /\ UNCHANGED <<collector, runs, persisted, stageVars, retries, base_backoff, attempt, nreq, succeeded,
                   articles, loopVars, tgVars, newsVars, fileVars>>

\* faulty variant, for contrast: a 429 handled like any other request failure
RateLimitCountsAsFailure ==
    IF attempt = retries
    THEN /\ pc' = "q_raised" /\ UNCHANGED <<attempt, articles>>
    ELSE /\ attempt' = attempt + 1 /\ pc' = "q_sleep" /\ articles' = articles

\* except requests.HTTPError with status 429: continue
AfterRateLimit ==
    IF attempt < retries
    THEN /\ attempt' = attempt + 1 /\ pc' = "q_sleep" /\ articles' = articles
    ELSE /\ attempt' = attempt /\ pc' = "q_returned" /\ articles' = <<>>

\* except requests.HTTPError, any other status: raise
AfterHttpError ==
    /\ pc' = "q_raised"
    /\ UNCHANGED <<attempt, articles>>

\* faulty variant, for contrast: a request failure raised on whichever attempt it occurs
RequestErrorRaisesAtOnce ==
    /\ pc' = "q_raised"
    /\ UNCHANGED <<attempt, articles>>

\* except requests.RequestException: if attempt == retries: raise
AfterRequestError ==
    IF attempt = retries
    THEN /\ pc' = "q_raised" /\ UNCHANGED <<attempt, articles>>
    ELSE /\ attempt' = attempt + 1 /\ pc' = "q_sleep" /\ articles' = articles

\* requests.get(...); raise_for_status(); return resp.json().get("articles", [])
QRequest ==
    /\ pc = "q_request"
    /\ OutboundCall
    /\ nreq' = nreq + 1
    /\ \/ /\ \E hits \in HitLists : articles' = hits
          /\ succeeded' = TRUE
          /\ pc' = "q_returned"
          /\ attempt' = attempt
          /\ resp' = "ok"
       \/ AfterRateLimit /\ succeeded' = succeeded /\ resp' = "429"
       \/ AfterHttpError /\ succeeded' = succeeded /\ resp' = "http_error"
       \/ AfterRequestError /\ succeeded' = succeeded /\ resp' = "request_error"
    /\ UNCHANGED <<collector, runs, persisted, stageVars, retries, base_backoff, loopVars, tgVars, newsVars,
                   fileVars>>

\* ------------------------------------------------------ scrape_archived
\* to_csv(out, index=False): the file is replaced by the frame's rows
WriteCsv(rs) == [exists |-> TRUE, rows |-> rs]

\* scrape_archived(domains = <<1, .., n>>, fetch_text = ft)
StartArchived ==
    /\ pc = "idle"
    /\ collector' = "gdelt"
    /\ FreshRun
    /\ \E n \in 1..MaxSources : nsrc' = n
    /\ \E ft \in BOOLEAN : fetch_text' = ft
    /\ src' = 1 /\ attempted' = {1}
    /\ EnterQuery(DefaultRetries, DefaultBackoffMs)
    /\ UNCHANGED fileVars

\* the locals of a _gdelt_query call that has returned no longer exist
QueryOver ==
    /\ attempt' = 0 /\ nreq' = 0 /\ succeeded' = FALSE /\ articles' = <<>>
    /\ resp' = "none"
    /\ UNCHANGED <<retries, base_backoff>>

\* faulty variant, for contrast: the loop over the domains left after the first one
NextDomainBreaks ==
    /\ pc' = "g_merge"
    /\ QueryOver
    /\ UNCHANGED <<src, attempted>>

\* the head of `for domain in domains`: the next domain's query, or the merge
NextDomain ==
    IF src < nsrc
    THEN /\ src' = src + 1
         /\ attempted' = attempted \cup {src + 1}
         /\ EnterQuery(DefaultRetries, DefaultBackoffMs)
    ELSE /\ pc' = "g_merge"
         /\ QueryOver
         /\ UNCHANGED <<src, attempted>>

\* articles = _gdelt_query(...) returned
GQueryReturned ==
    /\ pc = "q_returned" /\ collector = "gdelt"
    /\ todo' = articles
    /\ pc' = "g_article"
    /\ QueryOver
    /\ UNCHANGED <<collector, runs, persisted, stageVars, clockVars, nsrc, src, fetch_text,
                   text, rows, attempted, tgVars, newsVars, fileVars>>

\* except Exception: print(...); continue
GQueryRaised ==
    /\ pc = "q_raised" /\ collector = "gdelt"
    /\ NextDomain
    /\ UNCHANGED <<collector, runs, persisted, stageVars, clockVars, nsrc, fetch_text, todo, text, rows,
                   tgVars, newsVars, fileVars>>

\* if not text: text = title; rows.append({...})
AppendRow(txt) ==
    /\ rows' = Append(rows, Record(src, MessageId(Head(todo)), 0))
    /\ text' = IF txt = "" THEN "title" ELSE txt
    /\ todo' = Tail(todo)

\* a hit that is not fetched (fetch_text is False or the hit has no url)
GNoFetch ==
    /\ pc = "g_article" /\ todo # <<>>
    /\ ~(fetch_text /\ Head(todo) # "")
    /\ AppendRow("")
    /\ UNCHANGED <<pc, collector, runs, persisted, stageVars, clockVars, queryVars, nsrc, src,
                   fetch_text, attempted, tgVars, newsVars, fileVars>>

\* _fetch_text, attempt 1: the live URL
GLiveFetch ==
    /\ pc = "g_article" /\ todo # <<>>
    /\ fetch_text /\ Head(todo) # ""
    /\ OutboundCall
    /\ \/ text' = "live" /\ pc' = "g_fsleep"     \* extracted text is non-empty
       \/ text' = "" /\ pc' = "g_wayback"        \* empty text, or an exception
    /\ UNCHANGED <<collector, runs, persisted, stageVars, queryVars, nsrc, src, fetch_text, todo, rows,
                   attempted, tgVars, newsVars, fileVars>>

\* _fetch_text, attempt 2: the Wayback Machine snapshot
GWaybackFetch ==
    /\ pc = "g_wayback"
    /\ OutboundCall
    /\ \/ text' = "archive"
       \/ text' = ""                             \* empty text, or an exception
    /\ pc' = "g_fsleep"
    /\ UNCHANGED <<collector, runs, persisted, stageVars, queryVars, nsrc, src, fetch_text, todo, rows,
                   attempted, tgVars, newsVars, fileVars>>

\* time.sleep(delay) after _fetch_text, then the row is appended
GFetchSleep ==
    /\ pc = "g_fsleep"
    /\ Sleep(DelayMs)
    /\ AppendRow(text)
    /\ pc' = "g_article"
    /\ UNCHANGED <<collector, runs, persisted, stageVars, queryVars, nsrc, src, fetch_text, attempted,
                   tgVars, newsVars, fileVars>>

\* domain_df.to_csv(out): the per-domain file; an OSError is not caught
GSaveDomain ==
    /\ pc = "g_article" /\ todo = <<>>
    /\ \/ /\ domainCsv' = [domainCsv EXCEPT ![src] = WriteCsv(RowsOf(rows, src))]
          /\ pc' = "g_dsleep"
       \/ /\ domainCsv' = domainCsv
          /\ pc' = "aborted"
    /\ UNCHANGED <<collector, runs, persisted, stageVars, clockVars, queryVars, loopVars, tgVars, newsVars,
                   mergedCsv, rawCsv>>

\* time.sleep(delay) at the end of the domain's iteration
GDomainSleep ==
    /\ pc = "g_dsleep"
    /\ Sleep(DelayMs)
    /\ NextDomain
    /\ UNCHANGED <<collector, runs, persisted, stageVars, nsrc, fetch_text, todo, text, rows, tgVars,
                   newsVars, fileVars>>

\* df.to_csv(merged_out) after the loop
GMerge ==
    /\ pc = "g_merge"
    /\ \/ mergedCsv' = WriteCsv(rows) /\ pc' = "done"
       \/ mergedCsv' = mergedCsv /\ pc' = "aborted"
    /\ UNCHANGED <<collector, runs, persisted, stageVars, clockVars, queryVars, loopVars, tgVars, newsVars,
                   domainCsv, rawCsv>>

ArchivedNext ==
    \/ GQueryReturned \/ GQueryRaised
    \/ GNoFetch \/ GLiveFetch \/ GWaybackFetch \/ GFetchSleep
    \/ GSaveDomain \/ GDomainSleep \/ GMerge

\* ------------------------------------------------------ scrape_channels
\* what client.iter_messages(entity, limit = message_limit) can still yield:
\* message ids, newest first (the bound MaxHits stands for message_limit)
MessageIds == [i \in 1..MaxHits |-> ToString(MaxHits + 1 - i)]

\* scrape_channels(channels = {region: <<1, .., n>>})
StartChannels ==
    /\ pc = "idle"
    /\ collector' = "telegram"
    /\ FreshRun
    /\ \E n \in 1..MaxSources : nsrc' = n
    /\ src' = 1 /\ attempted' = {1}
    /\ pc' = "t_entity"
    /\ UNCHANGED <<queryVars, fetch_text, fileVars>>

\* faulty variant, for contrast: the channel is tried again after a flood error
CatchFloodRetry(s) ==
    /\ flood' = s
    /\ pc' = "t_entity"

\* except FloodWaitError as e
CatchFlood(s) ==
    /\ flood' = s
    /\ pc' = "t_flood"

\* entity = await client.get_entity(name)
TGetEntity ==
    /\ pc = "t_entity"
    /\ OutboundCall
    /\ \/ /\ todo' = MessageIds /\ pc' = "t_iter" /\ flood' = -1
       \/ /\ \E s \in FloodSeconds : CatchFlood(s)
          /\ todo' = todo
       \/ /\ pc' = "t_pause" /\ flood' = -1          \* except Exception
          /\ todo' = todo
    /\ interrupted' = interrupted
    /\ UNCHANGED <<collector, runs, persisted, stageVars, queryVars, nsrc, src, fetch_text, text, rows,
                   attempted, newsVars, fileVars>>

\* the end of the `async for`: by exhaustion, by the limit or by break
EndOfMessages == pc' = "t_pause" /\ todo' = <<>>

\* one turn of `async for msg in client.iter_messages(...)`
TIterMessages ==
    /\ pc = "t_iter"
    /\ OutboundCall
    /\ \/ /\ todo # <<>>                              \* a message with text
          /\ \E v \in ViewCounts : rows' = Append(rows, Record(src, Head(todo), v))
          /\ todo' = Tail(todo)
          /\ pc' = "t_iter"
          /\ flood' = -1 /\ interrupted' = interrupted
       \/ /\ todo # <<>>                              \* a message without text
          /\ todo' = Tail(todo)
          /\ pc' = "t_iter"
          /\ UNCHANGED rows /\ flood' = -1 /\ interrupted' = interrupted
       \/ /\ EndOfMessages          \* no more, or msg.date < start_date
          /\ UNCHANGED rows /\ flood' = -1 /\ interrupted' = interrupted
       \/ /\ EndOfMessages          \* except Exception
          /\ UNCHANGED rows /\ flood' = -1
          /\ interrupted' = Append(interrupted, [channel |-> src, all_data |-> rows])
       \/ /\ \E s \in FloodSeconds : CatchFlood(s)
          /\ todo' = <<>>
          /\ UNCHANGED rows
          /\ interrupted' = Append(interrupted, [channel |-> src, all_data |-> rows])
    /\ UNCHANGED <<collector, runs, persisted, stageVars, queryVars, nsrc, src, fetch_text, text,
                   attempted, newsVars, fileVars>>

\* faulty variant, for contrast: the collector's own pause instead of the signalled duration
FloodWaitOwnSchedule == AntiBanMinMs + FloodMarginMs

\* the wait after a FloodWaitError
FloodWaitMs == flood * 1000 + FloodMarginMs

\* await asyncio.sleep(e.seconds + 5)
TFloodSleep ==
    /\ pc = "t_flood"
    /\ Sleep(FloodWaitMs)
    /\ pc' = "t_pause"
    /\ UNCHANGED <<collector, runs, persisted, stageVars, queryVars, loopVars, tgVars, newsVars, fileVars>>

\* delay = random.randint(10, 25); await asyncio.sleep(delay); the next channel
TPause ==
    /\ pc = "t_pause"
    /\ \E delay \in {AntiBanMinMs, AntiBanMaxMs} : Sleep(delay)
    /\ IF src < nsrc
       THEN /\ src' = src + 1 /\ attempted' = attempted \cup {src + 1}
            /\ pc' = "t_entity"
       ELSE /\ pc' = "t_write" /\ UNCHANGED <<src, attempted>>
    /\ UNCHANGED <<collector, runs, persisted, stageVars, queryVars, nsrc, fetch_text, todo, text, rows,
                   tgVars, newsVars, fileVars>>

\* df = pd.DataFrame(all_data); df.to_csv(output_path)
TWrite ==
    /\ pc = "t_write"
    /\ \/ rawCsv' = WriteCsv(rows) /\ pc' = "done"
       \/ rawCsv' = rawCsv /\ pc' = "aborted"
    /\ UNCHANGED <<collector, runs, persisted, stageVars, clockVars, queryVars, loopVars, tgVars, newsVars,
                   domainCsv, mergedCsv>>

ChannelsNext ==
    \/ TGetEntity \/ TIterMessages \/ TFloodSleep \/ TPause \/ TWrite

\* ----------------------------------------------------- scrape_all_tier1
\* _is_cyprus_hint(url, title), for an entry without a title
IsCyprusHint(url) == url \in HintUrls

\* what one sitemap can list
EntryLists == SeqsUpTo(NewsUrls, MaxHits)

\* cyprus_entries[:max_articles]
CyprusEntries(all_entries) ==
    LET hinted == SelectSeq(all_entries, IsCyprusHint)
    IN  SubSeq(hinted, 1, IF Len(hinted) < MaxArticles THEN Len(hinted) ELSE MaxArticles)

\* the first entry after i that has both keys (0: none); the others are skipped
NextEntry(i, n, sk) ==
    IF \E j \in (i + 1)..n : j \notin sk
    THEN CHOOSE j \in (i + 1)..n : j \notin sk /\ \A k \in (i + 1)..(j - 1) : k \in sk
    ELSE 0

\* the head of `for entry in data.get("tier1_archived", [])`
EnterEntry(i, n, sk) ==
    LET j == NextEntry(i, n, sk)
    IN  IF j # 0
        THEN /\ src' = j
             /\ attempted' = attempted \cup (i + 1)..j
             /\ pc' = "n_index_sleep"
        ELSE /\ src' = src
             /\ attempted' = attempted \cup (i + 1)..n
             /\ pc' = "n_merge"

\* scrape_all_tier1() over a config of n entries, those of sk lacking a key
StartTier1 ==
    /\ pc = "idle"
    /\ collector' = "news"
    /\ runs' = runs + 1
    /\ persisted' = persisted /\ UNCHANGED stageVars
    /\ sinceCall' = 0 /\ lastSleep' = 0
    /\ todo' = <<>> /\ text' = "" /\ rows' = <<>>
    /\ flood' = -1 /\ interrupted' = <<>>
    /\ children' = 0 /\ found' = <<>> /\ frames' = <<>>
    /\ \E n \in 1..MaxSources, sk \in SUBSET (1..MaxSources) :
          /\ sk \subseteq 1..n
          /\ nsrc' = n /\ skips' = sk
          /\ LET j == NextEntry(0, n, sk)
             IN  /\ src' = j
                 /\ attempted' = IF j # 0 THEN 1..j ELSE 1..n
                 /\ pc' = IF j # 0 THEN "n_index_sleep" ELSE "n_merge"
    /\ UNCHANGED <<queryVars, fetch_text, fileVars>>

\* _fetch_sitemap: time.sleep(delay), for the index and for a child sitemap
NSitemapSleep ==
    /\ pc \in {"n_index_sleep", "n_child_sleep"}
    /\ Sleep(SitemapDelayMs)
    /\ pc' = IF pc = "n_index_sleep" THEN "n_index_fetch" ELSE "n_child_fetch"
    /\ UNCHANGED <<collector, runs, persisted, stageVars, queryVars, loopVars, tgVars, newsVars, fileVars>>

\* all_entries is complete: the pre-filter, the cap, and the fetch loop begins
BeginArticles(all_entries) ==
    /\ found' = <<>>
    /\ todo' = CyprusEntries(all_entries)
    /\ rows' = <<>>
    /\ pc' = "n_article"

\* the sitemap index: requests.get, raise_for_status, ET.fromstring
NIndexFetch ==
    /\ pc = "n_index_fetch"
    /\ OutboundCall
    /\ \/ /\ BeginArticles(<<>>)             \* None (any exception), or another root tag
          /\ children' = 0
       \/ /\ \E k \in 1..MaxChildren : children' = k      \* a <sitemapindex>
          /\ found' = <<>> /\ pc' = "n_child_sleep"
          /\ UNCHANGED <<todo, rows>>
       \/ /\ \E es \in EntryLists : BeginArticles(es)     \* a flat <urlset>
          /\ children' = 0
    /\ UNCHANGED <<collector, runs, persisted, stageVars, queryVars, nsrc, src, fetch_text, text, attempted,
                   tgVars, skips, frames, fileVars>>

\* one child sitemap: None -> continue, else its entries are appended
NChildFetch ==
    /\ pc = "n_child_fetch"
    /\ OutboundCall
    /\ children' = children - 1
    /\ \E es \in EntryLists :                 \* <<>> also stands for None
          IF children > 1
          THEN /\ found' = found \o es /\ pc' = "n_child_sleep"
               /\ UNCHANGED <<todo, rows>>
          ELSE BeginArticles(found \o es)
    /\ UNCHANGED <<collector, runs, persisted, stageVars, queryVars, nsrc, src, fetch_text, text, attempted,
                   tgVars, skips, frames, fileVars>>

\* trafilatura.fetch_url(url) of an entry, and what follows up to the sleep
NArticleFetch ==
    /\ pc = "n_article" /\ todo # <<>>
    /\ OutboundCall
    /\ \/ text' = "raised" /\ rows' = rows               \* except Exception
       \/ text' = "skipped" /\ rows' = rows              \* not has_inclusion(text)
       \/ /\ text' = "kept"
          /\ rows' = Append(rows, Record(src, MessageId(Head(todo)), 0))
    /\ todo' = Tail(todo)
    /\ pc' = "n_sleep"
    /\ UNCHANGED <<collector, runs, persisted, stageVars, queryVars, nsrc, src, fetch_text, attempted,
                   tgVars, newsVars, fileVars>>

\* time.sleep(fetch_delay), or time.sleep(fetch_delay * 0.5) for a skipped article
NArticleSleep ==
    /\ pc = "n_sleep"
    /\ Sleep(IF text = "skipped" THEN FetchDelayMs \div 2 ELSE FetchDelayMs)
    /\ pc' = "n_article"
    /\ UNCHANGED <<collector, runs, persisted, stageVars, queryVars, loopVars, tgVars, newsVars, fileVars>>

\* df.to_csv(out) of the domain, return df, all_frames.append(df), the next entry
NSaveDomain ==
    /\ pc = "n_article" /\ todo = <<>>
    /\ \/ /\ domainCsv' = [domainCsv EXCEPT ![src] = WriteCsv(rows)]
          /\ frames' = Append(frames, rows)
          /\ rows' = <<>>                  \* the call's own rows are gone with it
          /\ EnterEntry(src, nsrc, skips)
       \/ /\ pc' = "aborted"                             \* an OSError is not caught
          /\ UNCHANGED <<domainCsv, frames, rows, src, attempted>>
    /\ UNCHANGED <<collector, runs, persisted, stageVars, clockVars, queryVars, nsrc, fetch_text,
                   todo, text, tgVars, skips, children, found, mergedCsv, rawCsv>>

RECURSIVE Concat(_)
\* pd.concat(all_frames, ignore_index=True)
Concat(fs) == IF fs = <<>> THEN <<>> ELSE Head(fs) \o Concat(Tail(fs))

\* if not all_frames: return pd.DataFrame(); else the merged file is written
NMerge ==
    /\ pc = "n_merge"
    /\ \/ /\ frames = <<>>
          /\ mergedCsv' = mergedCsv /\ pc' = "done"
       \/ /\ frames # <<>>
          /\ \/ mergedCsv' = WriteCsv(Concat(frames)) /\ pc' = "done"
             \/ mergedCsv' = mergedCsv /\ pc' = "aborted"
    /\ UNCHANGED <<collector, runs, persisted, stageVars, clockVars, queryVars, loopVars, tgVars, newsVars,
                   domainCsv, rawCsv>>

Tier1Next ==
    \/ NSitemapSleep \/ NIndexFetch \/ NChildFetch
    \/ NArticleFetch \/ NArticleSleep \/ NSaveDomain \/ NMerge

Next ==
    \/ StartQuery
    \/ QSleep
    \/ QRequest
    \/ StartArchived
    \/ ArchivedNext
    \/ StartChannels
    \/ ChannelsNext
    \/ StartTier1
    \/ Tier1Next

Spec == Init /\ [][Next]_vars

\* ------------------------------------------------------------- re-runs
\* the entry point has returned or let an exception out
RunEnded ==
    \/ pc \in {"done", "aborted"}
    \/ collector = "query" /\ pc \in {"q_returned", "q_raised"}

\* the process ends; a later process starts from the files it left
Restart ==
    /\ RunEnded
    /\ runs < MaxRuns
    /\ persisted' = [domain |-> domainCsv, merged |-> mergedCsv, raw |-> rawCsv]
    /\ pc' = "idle" /\ collector' = "none"
    /\ sinceCall' = 0 /\ lastSleep' = 0
    /\ retries' = 0 /\ base_backoff' = 0 /\ attempt' = 0 /\ nreq' = 0
    /\ succeeded' = FALSE /\ articles' = <<>> /\ resp' = "none"
    /\ nsrc' = 0 /\ src' = 0 /\ fetch_text' = TRUE /\ todo' = <<>> /\ text' = ""
    /\ rows' = <<>> /\ attempted' = {}
    /\ flood' = -1 /\ interrupted' = <<>>
    /\ skips' = {} /\ children' = 0 /\ found' = <<>> /\ frames' = <<>>
    /\ UNCHANGED <<runs, fileVars, stageVars>>

NextRerun == Next \/ Restart

SpecRerun == Init /\ [][NextRerun]_vars

\* =================================================== preprocessing/text_cleaning.py
\* A text is the sequence of its characters, a character a one-character string
\* (or, outside ASCII and for two quote characters, the name of its code point).
LowerLatin == {"a", "b", "c", "d", "e", "f", "g", "h", "i", "j", "k", "l", "m", "n", "o", "p", "q", "r", "s", "t", "u", "v", "w", "x", "y", "z"}
UpperLatin ==
    {"A", "B", "C", "D", "E", "F", "G", "H", "I", "J", "K", "L", "M", "N", "O", "P", "Q", "R", "S", "T", "U", "V", "W", "X", "Y", "Z"}
LatinChars == LowerLatin \cup UpperLatin
DigitChars == {"0", "1", "2", "3", "4", "5", "6", "7", "8", "9"}
\* members of [а-яА-ЯёЁ]: ya, Ya, ve, ie, o, er, es, ef
CyrillicChars == {"U+044F", "U+042F", "U+0432", "U+0435", "U+043E", "U+0440", "U+0441", "U+0444"}
\* members of [α-ωΑ-Ωά-ώΆ-Ώ]: alpha, Alpha, epsilon
GreekChars == {"U+03B1", "U+0391", "U+03B5"}
\* \w of a str pattern: letters, digits and the underscore
WordChars == LatinChars \cup CyrillicChars \cup GreekChars \cup DigitChars \cup {"_"}
\* \s
SpaceChars == {" ", "\t", "\n"}
\* the punctuation the class of line 30 keeps: . , ! ? : " ' - and the em dash
\* and guillemets
KeptPunctuation ==
    {".", ",", "!", "?", ":", "U+0022", "U+0027", "-", "U+2014", "U+00AB", "U+00BB"}

IsSpace(c) == c \in SpaceChars

StartsWith(t, i, p) == i + Len(p) - 1 <= Len(t) /\ SubSeq(t, i, i + Len(p) - 1) = p

\* \S+ matched greedily from position i: the position after the run of non-spaces
RECURSIVE NonSpaceEnd(_, _)
NonSpaceEnd(t, i) ==
    IF i > Len(t) \/ IsSpace(t[i]) THEN i ELSE NonSpaceEnd(t, i + 1)

\* http\S+|www\.\S+ matches at position i (either prefix has four characters and
\* \S+ needs one more, non-space)
UrlAt(t, i) ==
    /\ StartsWith(t, i, <<"h", "t", "t", "p">>) \/ StartsWith(t, i, <<"w", "w", "w", ".">>)
    /\ i + 4 <= Len(t)
    /\ ~IsSpace(t[i + 4])

\* re.sub(r"http\S+|www\.\S+", "", text): matches are taken left to right
RECURSIVE StripUrlsFrom(_, _)
StripUrlsFrom(t, i) ==
    IF i > Len(t) THEN <<>>
    ELSE IF UrlAt(t, i) THEN StripUrlsFrom(t, NonSpaceEnd(t, i + 4))
    ELSE <<t[i]>> \o StripUrlsFrom(t, i + 1)

\* faulty variant, for contrast: only the scheme is removed (the pattern without \S+)
StripSchemeOnly(t) ==
    LET RECURSIVE From(_)
        From(i) == IF i > Len(t) THEN <<>>
                   ELSE IF UrlAt(t, i) THEN From(i + 4)
                   ELSE <<t[i]>> \o From(i + 1)
    IN  From(1)

StripUrls(t) == StripUrlsFrom(t, 1)

\* re.sub(r"\*\*|__|~~|`", "", text)
RECURSIVE StripMarkdownFrom(_, _)
StripMarkdownFrom(t, i) ==
    IF i > Len(t) THEN <<>>
    ELSE IF \/ StartsWith(t, i, <<"*", "*">>)
            \/ StartsWith(t, i, <<"_", "_">>)
            \/ StartsWith(t, i, <<"~", "~">>)
         THEN StripMarkdownFrom(t, i + 2)
    ELSE IF t[i] = "U+0060" THEN StripMarkdownFrom(t, i + 1)
    ELSE <<t[i]>> \o StripMarkdownFrom(t, i + 1)

StripMarkdown(t) == StripMarkdownFrom(t, 1)

\* re.sub(r"[^\w\s\.,!?:\"'\-—«»]", " ", text)
ReplaceNonStandard(t) ==
    [i \in 1..Len(t) |->
        IF t[i] \in WordChars \cup SpaceChars \cup KeptPunctuation THEN t[i] ELSE " "]

\* re.sub(r"\s+", " ", text): every run of whitespace becomes one space
RECURSIVE CollapseFrom(_, _)
CollapseFrom(t, i) ==
    IF i > Len(t) THEN <<>>
    ELSE IF IsSpace(t[i])
         THEN IF i > 1 /\ IsSpace(t[i - 1]) THEN CollapseFrom(t, i + 1)
              ELSE <<" ">> \o CollapseFrom(t, i + 1)
    ELSE <<t[i]>> \o CollapseFrom(t, i + 1)

\* str.strip()
RECURSIVE Strip(_)
Strip(t) ==
    IF t = <<>> THEN t
    ELSE IF IsSpace(t[1]) THEN Strip(Tail(t))
    ELSE IF IsSpace(t[Len(t)]) THEN Strip(SubSeq(t, 1, Len(t) - 1))
    ELSE t

CollapseWhitespace(t) == Strip(CollapseFrom(t, 1))

\* clean_text(text) for a str (a missing value gives "")
clean_text(t) == CollapseWhitespace(ReplaceNonStandard(StripMarkdown(StripUrls(t))))

\* len(re.findall(<class>, text))
CountIn(t, class) == Cardinality({i \in 1..Len(t) : t[i] \in class})

\* counts = {"cyrillic": cyrillic, "latin": latin, "greek": greek}, in this order
ScriptOrder == <<"cyrillic", "latin", "greek">>

ScriptCount(t, script) ==
    CASE script = "cyrillic" -> CountIn(t, CyrillicChars)
      [] script = "latin"    -> CountIn(t, LatinChars)
      [] script = "greek"    -> CountIn(t, GreekChars)

\* faulty variant, for contrast: among equal counts the last key wins
classify_script_last_max(t) ==
    LET best == CHOOSE i \in 1..3 :
                    /\ \A j \in 1..3 : ScriptCount(t, ScriptOrder[j]) <= ScriptCount(t, ScriptOrder[i])
                    /\ \A j \in (i + 1)..3 : ScriptCount(t, ScriptOrder[j]) < ScriptCount(t, ScriptOrder[i])
    IN  IF ScriptCount(t, ScriptOrder[best]) > 0 THEN ScriptOrder[best] ELSE "unknown"

\* classify_script(text): max(counts, key=counts.get) is the first key, in the
\* dict's order, whose count is the largest
classify_script(t) ==
    IF t = <<>> THEN "unknown"
    ELSE LET dominant == CHOOSE i \in 1..3 :
                 /\ \A j \in 1..3 : ScriptCount(t, ScriptOrder[j]) <= ScriptCount(t, ScriptOrder[i])
                 /\ \A j \in 1..(i - 1) : ScriptCount(t, ScriptOrder[j]) < ScriptCount(t, ScriptOrder[i])
         IN  IF ScriptCount(t, ScriptOrder[dominant]) > 0 THEN ScriptOrder[dominant]
             ELSE "unknown"

\* the raw texts studied: the worked example of the cleaning stage, and every
\* text made of up to MaxFragments of these pieces
ExampleText ==
    <<"C", "h", "e", "c", "k", " ", "t", "h", "i", "s", " ", "o", "u", "t", "!", "!", " ", "h", "t", "t", "p", ":", "/", "/", "x", ".", "c", "o", "/", "y", " ", " ", " ", "#", "w", "i", "n">>

Fragments ==
    { <<"h", "t", "t", "p">>, <<"w", "w", "w", ".">>, <<"h", "t">>, <<"t", "p", "s">>, <<"s">>,
      <<" ">>, <<"*", "*">>, <<"_">>, <<"~">>, <<"#">>, <<"U+044F">>, <<"U+03B1">> }

RECURSIVE Flatten(_)
Flatten(ss) == IF ss = <<>> THEN <<>> ELSE Head(ss) \o Flatten(Tail(ss))

Texts == {Flatten(fs) : fs \in SeqsUpTo(Fragments, MaxFragments)} \cup {ExampleText}

notCleanVars == <<collectorVars, filterVars, lemmaVars, freqVars, domainVars, hitVars>>

InitClean ==
    /\ CollectorsIdle
    /\ FilterIdle
    /\ LemmaIdle
    /\ FreqIdle
    /\ DomainIdle
    /\ HitIdle
    /\ stage = "raw"
    /\ text_in \in Texts
    /\ text_cleaned = <<>> /\ text_again = <<>> /\ script_type = "none"

\* clean_and_split: df["text_cleaned"] = df[text_col].apply(clean_text)
CleanText ==
    /\ stage = "raw"
    /\ text_cleaned' = clean_text(text_in)
    /\ stage' = "cleaned"
    /\ UNCHANGED <<text_in, text_again, script_type, notCleanVars>>

\* clean_and_split: df["script_type"] = df["text_cleaned"].apply(classify_script)
ClassifyScript ==
    /\ stage = "cleaned"
    /\ script_type' = classify_script(text_cleaned)
    /\ stage' = "classified"
    /\ UNCHANGED <<text_in, text_cleaned, text_again, notCleanVars>>

\* clean_and_split run on rows that were cleaned before (text_col = "text_cleaned")
CleanAgain ==
    /\ stage = "classified"
    /\ text_again' = clean_text(text_cleaned)
    /\ stage' = "recleaned"
    /\ UNCHANGED <<text_in, text_cleaned, script_type, notCleanVars>>

NextClean ==
    \/ CleanText
    \/ ClassifyScript
    \/ CleanAgain

SpecClean == InitClean /\ [][NextClean]_vars

\* ====================================================== preprocessing/filtering.py
\* str.lower(), letter by letter
LowerLetters ==
    <<"a", "b", "c", "d", "e", "f", "g", "h", "i", "j", "k", "l", "m", "n", "o", "p", "q", "r", "s", "t", "u", "v", "w", "x", "y", "z", "U+044F", "U+03B1">>
UpperLetters ==
    <<"A", "B", "C", "D", "E", "F", "G", "H", "I", "J", "K", "L", "M", "N", "O", "P", "Q", "R", "S", "T", "U", "V", "W", "X", "Y", "Z", "U+042F", "U+0391">>

Lower(c) ==
    IF \E i \in DOMAIN UpperLetters : UpperLetters[i] = c
    THEN LowerLetters[CHOOSE i \in DOMAIN UpperLetters : UpperLetters[i] = c]
    ELSE c

lower(t) == [i \in 1..Len(t) |-> Lower(t[i])]

\* EXCLUDE_KEYWORDS: every entry is commented out
EXCLUDE_KEYWORDS == <<>>

\* INCLUDE_KEYWORDS, per category in the dict's order: the Latin-script patterns
\* and the patterns with word boundaries.  (The other Cyrillic and Greek
\* patterns can only match texts that hold letters none of the texts studied
\* here holds.)  "U+005C", "b" is the \b of a pattern.
INCLUDE_KEYWORDS ==
  [
    WAR |->
      <<
        <<"w", "a", "r">>, <<"i", "n", "v", "a", "s", "i", "o", "n">>,
        <<"c", "o", "n", "f", "l", "i", "c", "t">>, <<"m", "i", "l", "i", "t", "a", "r", "y">>,
        <<"a", "r", "m", "y">>, <<"f", "r", "o", "n", "t", "l", "i", "n", "e">>,
        <<"a", "t", "t", "a", "c", "k">>,
        <<"U+005C", "b", "U+0441", "U+0432", "U+043E", "U+005C", "b">>
      >>,
    KEY_ACT |->
      <<
        <<"p", "u", "t", "i", "n">>, <<"z", "e", "l", "e", "n", "s", "k", "y">>,
        <<"b", "i", "d", "e", "n">>, <<"n", "a", "t", "o">>, <<"e", "u">>,
        <<"e", "u", "r", "o", "p", "e">>, <<"k", "r", "e", "m", "l", "i", "n">>,
        <<"m", "o", "s", "c", "o", "w">>, <<"k", "i", "e", "v">>, <<"k", "y", "i", "v">>,
        <<"t", "r", "u", "m", "p">>, <<"U+005C", "b", "U+0435", "U+0441", "U+005C", "b">>,
        <<"U+005C", "b", "U+0440", "U+0444", "U+005C", "b">>,
        <<"U+005C", "b", "U+03B5", "U+03B5", "U+005C", "b">>
      >>,
    IDEAL_TER |->
      <<
        <<"n", "a", "z", "i">>, <<"f", "a", "s", "c", "i", "s", "t">>,
        <<"p", "r", "o", "p", "a", "g", "a", "n", "d", "a">>, <<"f", "a", "k", "e">>,
        <<"t", "r", "u", "t", "h">>, <<"w", "e", "s", "t">>,
        <<"i", "m", "p", "e", "r", "i", "a", "l">>,
        <<"r", "u", "s", "s", "o", "p", "h", "o", "b", "i", "a">>
      >>,
    CY_DIV |->
      <<
        <<"c", "y", "p", "r", "u", "s", " ", "p", "r", "o", "b", "l", "e", "m">>,
        <<"r", "e", "u", "n", "i", "f", "i", "c", "a", "t", "i", "o", "n">>,
        <<"o", "c", "c", "u", "p", "i", "e", "d">>,
        <<"b", "u", "f", "f", "e", "r", " ", "z", "o", "n", "e">>
      >>,
    EU_SKEP |->
      <<
        <<"b", "r", "u", "s", "s", "e", "l", "s">>,
        <<"e", "u", " ", "s", "a", "n", "c", "t", "i", "o", "n", "s">>,
        <<"s", "o", "v", "e", "r", "e", "i", "g", "n", "t", "y">>
      >>,
    BAIL_IN |->
      <<
        <<"b", "a", "i", "l", ".", "i", "n">>, <<"h", "a", "i", "r", "c", "u", "t">>,
        <<"i", "m", "f">>, <<"b", "a", "n", "k", " ", "l", "e", "v", "y">>,
        <<"d", "e", "p", "o", "s", "i", "t">>
      >>,
    ORTHO |->
      <<
        <<"o", "r", "t", "h", "o", "d", "o", "x">>, <<"c", "h", "u", "r", "c", "h">>,
        <<"c", "i", "v", "i", "l", "i", "s", "a", "t", "i", "o", "n">>,
        <<"c", "h", "r", "i", "s", "t", "i", "a", "n", " ", "v", "a", "l", "u", "e", "s">>
      >>,
    ELIT |->
      <<
        <<"c", "o", "r", "r", "u", "p", "t", " ", "e", "l", "i", "t", "e">>,
        <<"d", "e", "e", "p", " ", "s", "t", "a", "t", "e">>,
        <<"e", "s", "t", "a", "b", "l", "i", "s", "h", "m", "e", "n", "t">>,
        <<"o", "l", "i", "g", "a", "r", "c", "h">>
      >>,
    MIGR |->
      <<
        <<"m", "i", "g", "r", "a", "n", "t">>, <<"r", "e", "f", "u", "g", "e", "e">>,
        <<"i", "l", "l", "e", "g", "a", "l", " ", "i", "m", "m", "i", "g", "r", "a", "t", "i", "o", "n">>,
        <<"b", "o", "r", "d", "e", "r">>
      >>
  ]

Categories == <<"WAR", "KEY_ACT", "IDEAL_TER", "CY_DIV", "EU_SKEP", "BAIL_IN", "ORTHO", "ELIT", "MIGR">>

WordBoundary == <<"U+005C", "b">>

\* kw in text_lower
Contains(t, kw) == \E i \in 1..(Len(t) - Len(kw) + 1) : SubSeq(t, i, i + Len(kw) - 1) = kw

\* r"\b" in kw
HasBoundary(kw) == Contains(kw, WordBoundary)

\* re.search(kw, text_lower) for a pattern \b<letters>\b: the letters occur with
\* no word character right before or right after them
RegexSearch(kw, t) ==
    LET word == SubSeq(kw, 3, Len(kw) - 2)
    IN  \E i \in 1..(Len(t) - Len(word) + 1) :
            /\ SubSeq(t, i, i + Len(word) - 1) = word
            /\ i = 1 \/ t[i - 1] \notin WordChars
            /\ i + Len(word) > Len(t) \/ t[i + Len(word)] \notin WordChars

\* the test of one pattern, as _matches_any and has_inclusion make it
MatchesPattern(t_lower, kw) ==
    IF HasBoundary(kw) THEN RegexSearch(kw, t_lower) ELSE Contains(t_lower, kw)

\* _matches_any(text, keywords)
matches_any(t, keywords) ==
    \E k \in DOMAIN keywords : MatchesPattern(lower(t), keywords[k])

\* has_exclusion(text) for a str
has_exclusion(t) == matches_any(t, EXCLUDE_KEYWORDS)

\* has_inclusion(text) for a str
has_inclusion(t) ==
    \E c \in DOMAIN Categories :
        \E k \in DOMAIN INCLUDE_KEYWORDS[Categories[c]] :
            MatchesPattern(lower(t), INCLUDE_KEYWORDS[Categories[c]][k])

\* the raw texts of the rows studied
WarText ==
    <<"t", "h", "e", " ", "w", "a", "r", " ", "i", "n", " ", "c", "y", "p", "r", "u", "s", " ",
    "g", "o", "e", "s", " ", "o", "n">>
WarTextSpaced ==
    <<"t", "h", "e", " ", "w", "a", "r", " ", "i", "n", " ", " ", "c", "y", "p", "r", "u", "s",
    " ", "g", "o", "e", "s", " ", "o", "n">>
BeachText ==
    <<"n", "i", "c", "e", " ", "w", "e", "a", "t", "h", "e", "r", " ", "o", "n", " ", "t", "h",
    "e", " ", "b", "e", "a", "c", "h", " ", "t", "o", "d", "a", "y">>
ShortText ==
    <<"w", "a", "r", " ", "n", "o", "w">>
LinkText ==
    <<"T", "h", "e", " ", "W", "E", "S", "T", " ", "s", "e", "n", "d", "s", " ", "a", "i", "d",
    " ", "h", "t", "t", "p", ":", "/", "/", "x", ".", "c", "o", "/", "y">>
UnionText ==
    <<"U+0435", "U+0441", " ", "s", "u", "m", "m", "i", "t", " ", "o", "p", "e", "n", "s", " ",
    "i", "n", " ", "n", "i", "c", "o", "s", "i", "a">>

FilterTexts == {WarText, WarTextSpaced, BeachText, ShortText, LinkText, UnionText}

\* a row of the DataFrame; text_cleaned is the column clean_and_split added
FilterRow(id, t) == [message_id |-> id, text |-> t, text_cleaned |-> clean_text(t)]

\* the DataFrames studied: up to MaxRows rows, message_id i on the i-th
DataFrames ==
    {[i \in 1..Len(ts) |-> FilterRow(i, ts[i])] : ts \in SeqsUpTo(FilterTexts, MaxRows)}

\* df[text_col] of the row with index label i
Cell(i) == IF text_col = "text" THEN filter_df[i].text ELSE filter_df[i].text_cleaned

\* the index labels of df before a stage: all rows, or what the last stage left
Remaining ==
    IF steps = <<>> THEN [i \in 1..Len(filter_df) |-> i] ELSE steps[Len(steps)].kept

\* df = df[mask].copy(), then the stage's print
Keep(name, kept) ==
    /\ steps' = Append(steps, [name |-> name, kept |-> kept])
    /\ UNCHANGED <<filter_df, text_col, tag_col, tagged, cleanVars, lemmaVars, freqVars, domainVars, hitVars, collectorVars>>

InitFilter ==
    /\ CollectorsIdle
    /\ CleanIdle
    /\ LemmaIdle
    /\ FreqIdle
    /\ DomainIdle
    /\ HitIdle
    /\ stage = "step0"
    /\ filter_df \in DataFrames
    /\ text_col \in {"text", "text_cleaned"}
    /\ steps = <<>>
    /\ tag_col = "text"
    /\ tagged = <<>>

\* Step 1: df[df[text_col].str.len() > 20]
LengthMask(i) == Len(Cell(i)) > 20

LengthFilter ==
    /\ stage = "step0"
    /\ stage' = "step1"
    /\ Keep("length", SelectSeq(Remaining, LengthMask))

\* Step 2: df[~df[text_col].apply(has_exclusion)]
AdsMask(i) == ~has_exclusion(Cell(i))

RemoveAds ==
    /\ stage = "step1"
    /\ stage' = "step2"
    /\ Keep("exclusion", SelectSeq(Remaining, AdsMask))

\* Step 3: df[df[text_col].apply(has_inclusion)]
TopicMask(i) == has_inclusion(Cell(i))

\* faulty variant, for contrast: the mask is applied to the DataFrame passed in,
\* not to the rows the earlier steps left
TopicFilterOnInput ==
    /\ stage = "step2"
    /\ stage' = "step3"
    /\ steps' = Append(steps, [name |-> "inclusion",
                               kept |-> SelectSeq([i \in 1..Len(filter_df) |-> i], TopicMask)])
    /\ UNCHANGED <<filter_df, text_col, tag_col, tagged, cleanVars, lemmaVars, freqVars, domainVars, hitVars, collectorVars>>

TopicFilter ==
    /\ stage = "step2"
    /\ stage' = "step3"
    /\ Keep("inclusion", SelectSeq(Remaining, TopicMask))

\* Step 4: df.drop_duplicates(subset=[text_col], keep="first")
FirstMask(i) == \A j \in Range(Remaining) : j < i => Cell(j) # Cell(i)

Deduplicate ==
    /\ stage = "step3"
    /\ stage' = "returned"
    /\ Keep("dedup", SelectSeq(Remaining, FirstMask))

\* df[text_col] of the row with index label i, for tag_categories
TagCell(i, col) == IF col = "text" THEN filter_df[i].text ELSE filter_df[i].text_cleaned

\* faulty variant, for contrast: every pattern is looked up as a plain substring
TagContains(x, p) == Contains(lower(x), p)

\* re.search(p, x.lower()) if r"\b" in p else p in x.lower()
TagMatches(x, p) ==
    IF HasBoundary(p) THEN RegexSearch(p, lower(x)) ELSE Contains(lower(x), p)

\* the lambda of tag_categories, for a str x
Indicator(x, pats) == IF \E k \in DOMAIN pats : TagMatches(x, pats[k]) THEN 1 ELSE 0

\* the indicators of every text a cell of the DataFrames studied can hold
Indicators ==
    [x \in FilterTexts \cup {clean_text(t) : t \in FilterTexts} |->
        [c \in Range(Categories) |-> Indicator(x, INCLUDE_KEYWORDS[c])]]

\* tag_categories(df, text_col) with categories=None, df holding the rows `labels`
tag_categories(labels, col) ==
    [k \in 1..Len(labels) |->
        [message_id |-> filter_df[labels[k]].message_id,
         tags |-> Indicators[TagCell(labels[k], col)]]]

\* tag_categories on the DataFrame passed to filter_messages or on the one it returned
TagCategories ==
    /\ stage \in {"step0", "returned"}
    /\ \E col \in {"text", "text_cleaned"} :
          /\ tag_col' = col
          /\ tagged' = tag_categories(Remaining, col)
    /\ stage' = "tagged"
    /\ UNCHANGED <<filter_df, text_col, steps, cleanVars, lemmaVars, freqVars,
                   domainVars, hitVars, collectorVars>>

NextFilter ==
    \/ LengthFilter
    \/ RemoveAds
    \/ TopicFilter
    \/ Deduplicate
    \/ TagCategories

SpecFilter == InitFilter /\ [][NextFilter]_vars

\* ======================================================== analysis/lemmatization.py
\* The module defines lemmatize_russian, lemmatize_greek and lemmatize_column
\* twice; a caller gets the second definitions (lines 230, 247, 290), next to
\* lemmatize_greek_column and the pipeline cache of the first half.

\* str.isalpha()
IsAlpha(w) == w # <<>> /\ \A i \in DOMAIN w : w[i] \in LatinChars \cup CyrillicChars \cup GreekChars

\* the surface texts and the lemmas a pipeline may give a token, in any combination
TokenTexts == {<<"o", "x", "e", "n">>, <<"T", "h", "e">>, <<"i", "t">>, <<"x", "1">>}

TokenLemmas == {<<"o", "x">>, <<"o", "x", "e", "n">>, <<"O", "x", "e", "n">>, <<"t", "h", "e">>}

\* the stop-word set of the pipeline's language
StopWords == {<<"t", "h", "e">>}

Docs == SeqsUpTo([text : TokenTexts, lemma : TokenLemmas], MaxTokens)

\* token.is_stop, token.is_punct, token.is_space, token.is_alpha
is_stop(token)  == lower(token.text) \in StopWords
is_punct(token) == token.text # <<>> /\ \A i \in DOMAIN token.text : token.text[i] \in KeptPunctuation
is_space(token) == token.text # <<>> /\ \A i \in DOMAIN token.text : IsSpace(token.text[i])
is_alpha(token) == IsAlpha(token.text)

\* the condition of the comprehension of _lemmatize
KeepsToken(token) ==
    /\ ~is_stop(token)
    /\ ~is_punct(token)
    /\ ~is_space(token)
    /\ is_alpha(token)
    /\ Len(token.text) > 2

\* _lemmatize(text, nlp), doc being nlp(str(text)); an empty text has no tokens
lemmatize(doc) ==
    LET kept == SelectSeq(doc, KeepsToken)
    IN  [i \in 1..Len(kept) |-> lower(kept[i].lemma)]

\* _SCRIPT_MODEL_DEFAULTS
SCRIPT_MODEL_DEFAULTS ==
    [cyrillic |-> "ru_core_news_lg", greek |-> "el_core_news_lg", latin |-> "en_core_web_lg"]

\* script arguments of lemmatize_column: the three known ones and another
Scripts == {"cyrillic", "greek", "latin", "arabic"}

InitLemma ==
    /\ CollectorsIdle
    /\ CleanIdle
    /\ FilterIdle
    /\ FreqIdle
    /\ DomainIdle
    /\ HitIdle
    /\ stage = "lemmatize"
    /\ NLP_EL = 0 /\ built = [m \in Models |-> 0]
    /\ \E doc \in Docs : call = [NoCall EXCEPT !.doc = doc]

notLemmaVars == <<stage, collectorVars, cleanVars, filterVars, freqVars, domainVars, hitVars>>

\* lemmatize_column(df, script=script) with nlp left None; df holds one row,
\* whose text the pipeline turns into the tokens call.doc
LemmatizeColumn(script) ==
    /\ stage = "lemmatize"
    /\ call.n < MaxCalls
    /\ IF script \notin DOMAIN SCRIPT_MODEL_DEFAULTS
       THEN /\ call' = [NoCall EXCEPT !.n = call.n + 1, !.fn = "lemmatize_column",
                                      !.outcome = "ValueError", !.doc = call.doc]
            /\ UNCHANGED built
       ELSE LET model == SCRIPT_MODEL_DEFAULTS[script]
            IN  /\ built' = [built EXCEPT ![model] = @ + 1]
                /\ call' = [n |-> call.n + 1, fn |-> "lemmatize_column", model |-> model,
                            instance |-> built[model] + 1, outcome |-> "returned",
                            doc |-> call.doc, lemmas |-> lemmatize(call.doc)]
    /\ UNCHANGED <<NLP_EL, notLemmaVars>>

\* lemmatize_greek_column(df) with nlp left None, df holding one row: the
\* pipeline is that of _get_el_pipeline, and each row goes to the second
\* lemmatize_greek, whose loop is written for a spaCy Doc
LemmatizeGreekColumn ==
    /\ stage = "lemmatize"
    /\ call.n < MaxCalls
    /\ IF NLP_EL = 0
       THEN /\ built' = [built EXCEPT !["stanza:el"] = @ + 1]
            /\ NLP_EL' = built["stanza:el"] + 1
       ELSE UNCHANGED <<built, NLP_EL>>
    /\ call' = [n |-> call.n + 1, fn |-> "lemmatize_greek_column", model |-> "stanza:el",
                instance |-> NLP_EL',
                outcome |-> IF call.doc = <<>> THEN "returned" ELSE "raised",
                doc |-> call.doc, lemmas |-> <<>>]
    /\ UNCHANGED notLemmaVars

\* lemmatize_russian(text), lemmatize_greek(text) or lemmatize_latin(text): the
\* parameter nlp has no default
LemmatizeText(fn) ==
    /\ stage = "lemmatize"
    /\ call.n < MaxCalls
    /\ call' = [NoCall EXCEPT !.n = call.n + 1, !.fn = fn, !.outcome = "TypeError",
                              !.doc = call.doc]
    /\ UNCHANGED <<NLP_EL, built, notLemmaVars>>

NextLemma ==
    \/ \E script \in Scripts : LemmatizeColumn(script)
    \/ LemmatizeGreekColumn
    \/ \E fn \in {"lemmatize_russian", "lemmatize_greek", "lemmatize_latin"} : LemmatizeText(fn)

SpecLemma == InitLemma /\ [][NextLemma]_vars

\* ============================================================ analysis/frequency.py
\* the tokens of a lemmas list: two plain ones, and one that holds a space
NgramTokens == {<<"a">>, <<"b">>, <<"a", " ", "b">>}

LemmaLists == SeqsUpTo(NgramTokens, MaxListLen)

\* the values studied of n and of min_freq
NgramSizes == {1, 2}
MinFreqs   == {1, 2}

\* nltk's ngrams(lemma_list, n): the windows of n contiguous tokens, in order
ngrams(lemma_list, n) ==
    [i \in 1..(Len(lemma_list) - n + 1) |-> SubSeq(lemma_list, i, i + n - 1)]

\* faulty variant, for contrast: the lists are chained before the windows are
\* taken, so that a window can span two rows
AllNgramsChained(series, n) == ngrams(Flatten(series), n)

\* all_ng after the loop of lines 32-34
AllNgrams(series, n) ==
    Flatten([r \in DOMAIN series |->
                IF Len(series[r]) >= n THEN ngrams(series[r], n) ELSE <<>>])

\* the keys of Counter(all_ng), in the order of their first occurrence
RECURSIVE CounterKeys(_)
CounterKeys(all_ng) ==
    IF all_ng = <<>> THEN <<>>
    ELSE LET before == CounterKeys(SubSeq(all_ng, 1, Len(all_ng) - 1))
             last   == all_ng[Len(all_ng)]
         IN  IF last \in Range(before) THEN before ELSE Append(before, last)

\* " ".join(ng)
RECURSIVE Join(_)
Join(ng) ==
    IF ng = <<>> THEN <<>>
    ELSE IF Len(ng) = 1 THEN ng[1]
    ELSE ng[1] \o <<" ">> \o Join(Tail(ng))

\* the list comprehension of lines 37-41
NgramRows(all_ng, threshold) ==
    LET keys == CounterKeys(all_ng)
        kept == SelectSeq(keys, LAMBDA ng : Count(ng, all_ng) >= threshold)
    IN  [i \in 1..Len(kept) |-> <<Join(kept[i]), Count(kept[i], all_ng)>>]

\* sorted(rows, key=lambda x: x[1], reverse=True): stable, largest count first
RECURSIVE SortedByCount(_)
SortedByCount(rs) ==
    IF rs = <<>> THEN <<>>
    ELSE LET rest  == SortedByCount(Tail(rs))
             ahead == SelectSeq(rest, LAMBDA r : r[2] > Head(rs)[2])
             after == SelectSeq(rest, LAMBDA r : r[2] <= Head(rs)[2])
         IN  ahead \o <<Head(rs)>> \o after

\* compute_ngrams(lemmas_series, n, min_freq), rows of the DataFrame returned
compute_ngrams(series, n, threshold) ==
    SortedByCount(NgramRows(AllNgrams(series, n), threshold))

InitNgrams ==
    /\ CollectorsIdle
    /\ CleanIdle
    /\ FilterIdle
    /\ LemmaIdle
    /\ DomainIdle
    /\ HitIdle
    /\ stage = "lemmas"
    /\ lemmas_series \in SeqsUpTo(LemmaLists, MaxLists)
    /\ ngram_n \in NgramSizes
    /\ min_freq \in MinFreqs
    /\ ngram_rows = <<>>
    /\ top_n = DefaultTopN /\ word_rows = <<>>

ComputeNgrams ==
    /\ stage = "lemmas"
    /\ ngram_rows' = compute_ngrams(lemmas_series, ngram_n, min_freq)
    /\ stage' = "ngrams"
    /\ UNCHANGED <<lemmas_series, ngram_n, min_freq, top_n, word_rows, collectorVars,
                   cleanVars, filterVars, lemmaVars, domainVars,
                   hitVars>>

NextNgrams == ComputeNgrams

SpecNgrams == InitNgrams /\ [][NextNgrams]_vars

\* --------------------------------------------------------------- word_frequency
\* the lemma lists of the worked example: [[war, army], [war, army], [peace]]
ExampleLemmas ==
    << <<<<"w", "a", "r">>, <<"a", "r", "m", "y">>>>,
       <<<<"w", "a", "r">>, <<"a", "r", "m", "y">>>>,
       <<<<"p", "e", "a", "c", "e">>>> >>

\* the values studied of top_n
TopNs == {0, 1, 2, DefaultTopN}

\* faulty variant, for contrast: the first k keys of the counter, unsorted
FirstKeys(rs, k) == SubSeq(rs, 1, IF k < Len(rs) THEN k ELSE Len(rs))

\* Counter.most_common(k): the k largest counts, equal counts in the order the
\* counter first met them (sorted(..., reverse=True)[:k])
most_common(rs, k) ==
    LET ranked == SortedByCount(rs)
    IN  SubSeq(ranked, 1, IF k < Len(ranked) THEN k ELSE Len(ranked))

\* word_frequency(lemmas_series, top_n), rows of the DataFrame returned
word_frequency(series, k) ==
    LET all_lemmas == Flatten(series)
        keys       == CounterKeys(all_lemmas)
    IN  most_common([i \in 1..Len(keys) |-> <<keys[i], Count(keys[i], all_lemmas)>>], k)

InitWords ==
    /\ CollectorsIdle
    /\ CleanIdle
    /\ FilterIdle
    /\ LemmaIdle
    /\ DomainIdle
    /\ HitIdle
    /\ stage = "lemmas"
    /\ lemmas_series \in SeqsUpTo(LemmaLists, MaxLists) \cup {ExampleLemmas}
    /\ top_n \in TopNs
    /\ ngram_n = 2 /\ min_freq = 5 /\ ngram_rows = <<>>
    /\ word_rows = <<>>

WordFrequency ==
    /\ stage = "lemmas"
    /\ word_rows' = word_frequency(lemmas_series, top_n)
    /\ stage' = "words"
    /\ UNCHANGED <<lemmas_series, ngram_n, min_freq, ngram_rows, top_n, collectorVars,
                   cleanVars, filterVars, lemmaVars, domainVars,
                   hitVars>>

NextWords == WordFrequency

SpecWords == InitWords /\ [][NextWords]_vars

\* ------------------------------------------- scrape_news_domain and its texts
CYPRUS_URL_HINTS ==
    {<<"c", "y", "p", "r", "u", "s">>, <<"n", "i", "c", "o", "s", "i", "a">>,
     <<"f", "a", "m", "a", "g", "u", "s", "t", "a">>,
     <<"c", "h", "r", "i", "s", "t", "o", "d", "o", "u", "l", "i", "d", "e", "s">>,
     <<"l", "i", "m", "a", "s", "s", "o", "l">>, <<"l", "a", "r", "n", "a", "c", "a">>,
     <<"p", "a", "p", "h", "o", "s">>}

\* _is_cyprus_hint(url, title)
is_cyprus_hint(url, title) ==
    LET combined == lower(url \o <<" ">> \o title)
    IN  \E hint \in CYPRUS_URL_HINTS : Contains(combined, hint)

\* entries a sitemap can list: a <urlset> entry has the title "", a news
\* sitemap entry its <title>
TalksEntry   == [url |-> <<"r", "t", ".", "c", "o", "m", "/", "c", "y", "p", "r", "u", "s", "-", "t", "a", "l", "k", "s">>, title |-> <<>>]
SportEntry   == [url |-> <<"r", "t", ".", "c", "o", "m", "/", "s", "p", "o", "r", "t">>, title |-> <<>>]
TitledEntry  == [url |-> <<"r", "t", ".", "c", "o", "m", "/", "n", "e", "w", "s", "/", "1">>,
                 title |-> <<"W", "a", "r", " ", "n", "e", "a", "r", " ", "L", "i", "m", "a", "s", "s", "o", "l">>]
PaphosEntry  == [url |-> <<"r", "t", ".", "c", "o", "m", "/", "p", "a", "p", "h", "o", "s">>, title |-> <<"B", "e", "a", "c", "h", " ", "d", "a", "y">>]
SitemapEntries == {TalksEntry, SportEntry, TitledEntry, PaphosEntry}

\* (trafilatura.extract(downloaded) or "").strip()
ExtractedTexts == {<<>>, WarText, BeachText}

\* faulty variant, for contrast: the cap without the pre-filter
FirstEntries(entries, cap) ==
    SubSeq(entries, 1, IF Len(entries) < cap THEN Len(entries) ELSE cap)

\* [e for e in all_entries if _is_cyprus_hint(e["url"], e["title"])][:max_articles]
cyprus_slice(entries, cap) ==
    LET hinted == SelectSeq(entries, LAMBDA e : is_cyprus_hint(e.url, e.title))
    IN  SubSeq(hinted, 1, IF Len(hinted) < cap THEN Len(hinted) ELSE cap)

notDomainVars == <<collectorVars, cleanVars, filterVars, lemmaVars, freqVars, hitVars>>

InitNewsDomain ==
    /\ CollectorsIdle
    /\ CleanIdle
    /\ FilterIdle
    /\ LemmaIdle
    /\ FreqIdle
    /\ HitIdle
    /\ stage = "discovered"
    /\ news_entries \in SeqsUpTo(SitemapEntries, MaxHits)
    /\ max_articles \in 0..MaxArticles
    /\ cyprus_entries = <<>>
    /\ entry = NoEntry /\ article_text = <<>> /\ domain_rows = <<>>
    /\ fetched = <<>> /\ tested = <<>>

\* the pre-filter and the cap, before the loop
PreFilter ==
    /\ stage = "discovered"
    /\ cyprus_entries' = cyprus_slice(news_entries, max_articles)
    /\ stage' = "loop"
    /\ UNCHANGED <<news_entries, max_articles, entry, article_text, domain_rows, fetched, tested,
                   notDomainVars>>

\* the head of an iteration: fetch_url and extract; an exception is printed and
\* the loop continues after the sleep; an empty text is replaced by the title
FetchArticle ==
    /\ stage = "loop" /\ cyprus_entries # <<>>
    /\ entry' = Head(cyprus_entries)
    /\ cyprus_entries' = Tail(cyprus_entries)
    /\ fetched' = Append(fetched, Head(cyprus_entries))
    /\ \/ article_text' = <<>> /\ stage' = "loop"
       \/ \E t \in ExtractedTexts :
             /\ article_text' = IF t = <<>> THEN Head(cyprus_entries).title ELSE t
             /\ stage' = "inclusion"
    /\ UNCHANGED <<news_entries, max_articles, domain_rows, tested, notDomainVars>>

\* if not has_inclusion(text): the shorter sleep, continue
InclusionTest ==
    /\ stage = "inclusion"
    /\ tested' = Append(tested, [url |-> entry.url, text |-> article_text,
                                 ok |-> has_inclusion(article_text)])
    /\ stage' = IF has_inclusion(article_text) THEN "append" ELSE "loop"
    /\ UNCHANGED <<news_entries, max_articles, cyprus_entries, entry, article_text, domain_rows,
                   fetched, notDomainVars>>

\* rows.append({...}) and the sleep
KeepArticle ==
    /\ stage = "append"
    /\ domain_rows' = Append(domain_rows, [source_url |-> entry.url, text |-> article_text])
    /\ stage' = "loop"
    /\ UNCHANGED <<news_entries, max_articles, cyprus_entries, entry, article_text, fetched,
                   tested, notDomainVars>>

\* the loop is over: df = pd.DataFrame(rows); df.to_csv(out); return df
ReturnFrame ==
    /\ stage = "loop" /\ cyprus_entries = <<>>
    /\ stage' = "returned"
    /\ UNCHANGED <<domainVars, notDomainVars>>

NextNewsDomain ==
    \/ PreFilter
    \/ FetchArticle
    \/ InclusionTest
    \/ KeepArticle
    \/ ReturnFrame

SpecNewsDomain == InitNewsDomain /\ [][NextNewsDomain]_vars

\* ------------------------------------ scrape_archived, the loop over the articles
\* what a search hit can carry: article.get("url", ""), article.get("title", "")
SearchHits ==
    {[url |-> "", title |-> "t0"], [url |-> "u1", title |-> "t1"], [url |-> "u2", title |-> ""]}

\* what one fetch_url + extract attempt can end in
FetchOutcomes == {"raised", "empty", "text"}

\* faulty variant, for contrast: the snapshot is fetched whatever the live fetch gave
AlwaysArchive(outcome) == TRUE

\* _fetch_text goes on to attempt 2: the live fetch raised, or its text is empty
needs_archive(outcome) == outcome \in {"raised", "empty"}

notHitVars == <<collectorVars, cleanVars, filterVars, lemmaVars, freqVars, domainVars>>

InitHits ==
    /\ CollectorsIdle
    /\ CleanIdle
    /\ FilterIdle
    /\ LemmaIdle
    /\ FreqIdle
    /\ DomainIdle
    /\ stage = "articles"
    /\ hit_list \in SeqsUpTo(SearchHits, MaxHits)
    /\ with_text \in BOOLEAN
    /\ hits_left = hit_list
    /\ hit = NoHit
    /\ live = "none" /\ archive = "none" /\ hit_text = "" /\ hit_rows = <<>>

\* the head of `for article in articles`: url, title, text = ""
TakeHit ==
    /\ stage = "articles" /\ hits_left # <<>>
    /\ hit' = Head(hits_left)
    /\ hits_left' = Tail(hits_left)
    /\ live' = "none" /\ archive' = "none" /\ hit_text' = ""
    /\ stage' = IF with_text /\ Head(hits_left).url # "" THEN "live" ELSE "append"
    /\ UNCHANGED <<hit_list, with_text, hit_rows, notHitVars>>

\* _fetch_text, attempt 1; a non-empty text is returned, then time.sleep(delay)
FetchLive ==
    /\ stage = "live"
    /\ \E outcome \in FetchOutcomes :
          /\ live' = outcome
          /\ hit_text' = IF outcome = "text" THEN "live text" ELSE ""
          /\ stage' = IF needs_archive(outcome) THEN "archive" ELSE "append"
    /\ UNCHANGED <<hit_list, with_text, hits_left, hit, archive, hit_rows, notHitVars>>

\* _fetch_text, attempt 2; its text or "" is returned, then time.sleep(delay)
FetchArchive ==
    /\ stage = "archive"
    /\ \E outcome \in FetchOutcomes :
          /\ archive' = outcome
          /\ hit_text' = IF outcome = "text" THEN "archive text" ELSE hit_text
    /\ stage' = "append"
    /\ UNCHANGED <<hit_list, with_text, hits_left, hit, live, hit_rows, notHitVars>>

\* if not text: text = title; rows.append({...})
AppendHit ==
    /\ stage = "append"
    /\ hit_rows' = Append(hit_rows,
                          [source_url |-> hit.url,
                           text |-> IF hit_text = "" THEN hit.title ELSE hit_text,
                           title |-> hit.title, live |-> live, archive |-> archive])
    /\ stage' = "articles"
    /\ UNCHANGED <<hit_list, with_text, hits_left, hit, live, archive, hit_text, notHitVars>>

\* the articles are exhausted: the domain's file is written
HitsDone ==
    /\ stage = "articles" /\ hits_left = <<>>
    /\ stage' = "saved"
    /\ UNCHANGED <<hitVars, notHitVars>>

NextHits ==
    \/ TakeHit
    \/ FetchLive
    \/ FetchArchive
    \/ AppendHit
    \/ HitsDone

SpecHits == InitHits /\ [][NextHits]_vars

\* ======================================================================
\* Properties
\* ======================================================================

\* the next step of the run is an outbound network call
AtOutboundCall ==
    \/ ENABLED QRequest
    \/ ENABLED GLiveFetch \/ ENABLED GWaybackFetch
    \/ ENABLED TGetEntity \/ ENABLED TIterMessages
    \/ ENABLED NIndexFetch \/ ENABLED NChildFetch \/ ENABLED NArticleFetch

InQueryLoop == pc \in {"q_sleep", "q_request"}
QueryEnded  == pc \in {"q_returned", "q_raised"}

\* the records collected so far in this run, over all its sources
AllRows == IF collector = "news" THEN Concat(frames) \o rows ELSE rows



FileRows(f) == f.rows

\* the merged all-sources output of the running collector
MergedOut == IF collector = "telegram" THEN rawCsv ELSE mergedCsv

\* every record some output file holds
Stored ==
    UNION {Range(FileRows(domainCsv[d])) : d \in Sources}
        \cup Range(FileRows(mergedCsv)) \cup Range(FileRows(rawCsv))

\* ---------------------------------------------------------------- C1
\* C1: in _gdelt_query with retries = R and base_backoff = B, the k-th request
\* is the one of attempt k (k = 1..R), it is sent right after a sleep of
\* exactly B * k, at most R requests are sent, and the call has ended (return
\* or raise) by the time R requests were sent: the loop is never at an
\* attempt beyond R.
C1_LinearBackoffBeforeEachRequest ==
    /\ nreq <= retries
    /\ InQueryLoop => attempt \in 1..retries /\ nreq = attempt - 1
    /\ pc = "q_request" => lastSleep = base_backoff * attempt

C1_Witness ==
    /\ collector = "query" /\ pc = "q_request"
    /\ retries >= 3 /\ attempt = retries
    /\ lastSleep = base_backoff * retries

\* ---------------------------------------------------------------- C2
\* C2: while a 429 response is being handled, _gdelt_query has not raised:
\* either attempts remained and the next attempt has begun, or it was the
\* final attempt and the call returned.
C2_RateLimitAlwaysRetried ==
    resp = "429" =>
        \/ pc = "q_sleep" /\ attempt = nreq + 1 /\ attempt <= retries
        \/ pc = "q_returned" /\ nreq = retries

C2_Witness ==
    /\ resp = "429" /\ pc = "q_returned" /\ nreq = retries /\ retries >= 2

\* ---------------------------------------------------------------- C3
\* C3 as claimed: a failure other than a 429 (another HTTP error status, a
\* timeout, a connection error) raises only on the final attempt, and on an
\* earlier attempt the next attempt is made.
C3_Original ==
    resp \in {"http_error", "request_error"} =>
        IF nreq = retries THEN pc = "q_raised"
        ELSE pc = "q_sleep" /\ attempt = nreq + 1

\* C3 as amended: an HTTP error status other than 429 raises on whichever
\* attempt it occurs and no further attempt is made; any other request
\* failure (timeout, connection error) raises only on the final attempt, and
\* on an earlier attempt the next attempt is made.
C3_HardErrorsRaiseAtOnce ==
    /\ resp = "http_error" => pc = "q_raised"
    /\ resp = "request_error" =>
          IF nreq = retries THEN pc = "q_raised"
          ELSE pc = "q_sleep" /\ attempt = nreq + 1

C3_Witness ==
    /\ collector = "query" /\ retries >= 2
    /\ resp = "http_error" /\ pc = "q_raised" /\ nreq = 1

\* ---------------------------------------------------------------- C4
\* C4: when _gdelt_query ends under scrape_archived, the caller sees a list
\* of articles exactly when some attempt succeeded, and an exception
\* otherwise: used-up attempts are never seen as a query without hits.
C4_ExhaustionIsAFailure ==
    (collector = "gdelt" /\ QueryEnded) => (pc = "q_returned" <=> succeeded)

\* ---------------------------------------------------------------- C5
\* C5: after a FloodWaitError carrying s seconds, the sleep that follows is
\* longer than s seconds (s plus a positive margin), and no call to the API
\* is made before more than s seconds have been waited since the call that
\* raised it.
C5_FloodWaitHonoured ==
    /\ (pc = "t_pause" /\ flood >= 0) => lastSleep > flood * 1000
    /\ (AtOutboundCall /\ flood >= 0) => sinceCall > flood * 1000

C5_Witness ==
    /\ pc = "t_entity" /\ src = 2 /\ flood = 60
    /\ sinceCall > 60000

\* ---------------------------------------------------------------- C6
\* C6: in the document-search and sitemap collectors no outbound call follows
\* another one (or the start of the run) without a sleep in between.
C6_EveryCallPrecededByDelay ==
    (collector \in {"gdelt", "news"} /\ AtOutboundCall) => sinceCall > 0

\* ---------------------------------------------------------------- C7
\* C7: while a source is in progress, or after the last one, every record
\* collected from an earlier source of the run is in an output file.
C7_EarlierSourcesPersisted ==
    \A r \in Range(AllRows) :
        (collector \in {"gdelt", "telegram", "news"} /\ r.channel < src) => r \in Stored

\* ---------------------------------------------------------------- C8
\* C8: a run ends only after every configured source has been attempted, and
\* a run that ended normally has every collected record in its final output.
C8_NoSourceFailureAbortsTheRun ==
    (collector \in {"gdelt", "telegram", "news"} /\ RunEnded) =>
        /\ attempted = 1..nsrc
        /\ pc = "done" => Range(AllRows) \subseteq Range(FileRows(MergedOut))

C10_PersistedRecordsSurviveRerun ==
    (runs >= 2 /\ RunEnded) =>
        /\ \A r \in Range(FileRows(persisted.raw)) :
              Count(r, FileRows(rawCsv)) = Count(r, FileRows(persisted.raw))
        /\ \A r \in Range(FileRows(persisted.merged)) :
              Count(r, FileRows(mergedCsv)) = Count(r, FileRows(persisted.merged))
        /\ \A d \in Sources : \A r \in Range(FileRows(persisted.domain[d])) :
              Count(r, FileRows(domainCsv[d])) = Count(r, FileRows(persisted.domain[d]))

HasUrl(t) == \E i \in 1..Len(t) : UrlAt(t, i)

HasWhitespaceRun(t) == \E i \in 1..(Len(t) - 1) : IsSpace(t[i]) /\ IsSpace(t[i + 1])

HasOuterWhitespace(t) == t # <<>> /\ (IsSpace(t[1]) \/ IsSpace(t[Len(t)]))

\* C14: clean_text is idempotent: cleaning a cleaned text changes nothing.
C14_CleanTextIdempotent ==
    stage = "recleaned" => text_again = text_cleaned

\* C15: a cleaned text holds no raw URL, no run of two or more whitespace
\* characters, and no leading or trailing whitespace.
C15_NoUrlNoWhitespaceRun ==
    stage \in {"cleaned", "classified", "recleaned"} =>
        /\ ~HasUrl(text_cleaned)
        /\ ~HasWhitespaceRun(text_cleaned)
        /\ ~HasOuterWhitespace(text_cleaned)

\* C16, as stated: the worked example is cleaned to "Check this out!! #win",
\* the "#" being kept.
C16_ExampleKeepsHash ==
    (stage = "cleaned" /\ text_in = ExampleText) =>
        text_cleaned = <<"C", "h", "e", "c", "k", " ", "t", "h", "i", "s", " ", "o", "u", "t", "!", "!", " ", "#", "w", "i", "n">>

\* C16, amended: the worked example is cleaned to "Check this out!! win"; the URL
\* is stripped, the whitespace collapsed, and the "#" replaced by whitespace.
C16_ExampleCleaned ==
    (stage = "cleaned" /\ text_in = ExampleText) =>
        text_cleaned = <<"C", "h", "e", "c", "k", " ", "t", "h", "i", "s", " ", "o", "u", "t", "!", "!", " ", "w", "i", "n">>

C16_Witness == stage = "cleaned" /\ text_in = ExampleText /\ Len(text_cleaned) = 20

AllCountsZero(t) == \A i \in 1..3 : ScriptCount(t, ScriptOrder[i]) = 0

\* C17, as stated: "unknown" iff the three counts are zero; otherwise the script
\* returned has a count strictly higher than every other script's.
C17_StrictlyHighestCount ==
    stage = "classified" =>
        /\ script_type = "unknown" <=> AllCountsZero(text_cleaned)
        /\ script_type # "unknown" =>
              \A i \in 1..3 : ScriptOrder[i] # script_type =>
                  ScriptCount(text_cleaned, ScriptOrder[i]) < ScriptCount(text_cleaned, script_type)

\* C17, amended: "unknown" iff the three counts are zero; otherwise the script
\* returned has the highest count, and among scripts with that count it is the
\* first in the order cyrillic, latin, greek.
C17_HighestCountFirstOnTies ==
    stage = "classified" =>
        /\ script_type = "unknown" <=> AllCountsZero(text_cleaned)
        /\ script_type # "unknown" =>
              \E k \in 1..3 :
                  /\ ScriptOrder[k] = script_type
                  /\ \A i \in 1..3 :
                        ScriptCount(text_cleaned, ScriptOrder[i]) <= ScriptCount(text_cleaned, script_type)
                  /\ \A i \in 1..(k - 1) :
                        ScriptCount(text_cleaned, ScriptOrder[i]) < ScriptCount(text_cleaned, script_type)

C17_Witness ==
    /\ stage = "classified"
    /\ script_type = "latin"
    /\ CountIn(text_cleaned, LatinChars) = CountIn(text_cleaned, GreekChars)
    /\ CountIn(text_cleaned, CyrillicChars) < CountIn(text_cleaned, LatinChars)

\* ----------------------------------------------------- claims on filtering.py
StageOrder == <<"length", "exclusion", "inclusion", "dedup">>

\* the index labels before stage k
Before(k) == IF k = 1 THEN [i \in 1..Len(filter_df) |-> i] ELSE steps[k - 1].kept

\* C12: filter_messages runs its stages in the order length gate, exclusion
\* gate, inclusion gate, deduplication; the row count never grows from one stage
\* to the next, and the rows a stage leaves are among those the stage before left.
C12_StagesInOrderAndMonotone ==
    /\ Len(steps) <= Len(StageOrder)
    /\ \A k \in DOMAIN steps :
          /\ steps[k].name = StageOrder[k]
          /\ Len(steps[k].kept) <= Len(Before(k))
          /\ Range(steps[k].kept) \subseteq Range(Before(k))

C12_Witness ==
    /\ stage = "returned"
    /\ Len(steps) = 4
    /\ Len(filter_df) = 3
    /\ Len(steps[1].kept) = 2
    /\ Len(steps[3].kept) = 2
    /\ Len(steps[4].kept) = 1

\* C13: of the rows filter_messages returns no two have the same text_cleaned,
\* and of the rows with one text_cleaned that pass the three gates the first
\* by input order is the one returned.
C13_OneRowPerCleanedText ==
    stage = "returned" =>
        LET out   == Range(steps[4].kept)
            gated == Range(steps[3].kept)
        IN  /\ \A i, j \in out :
                  i # j => filter_df[i].text_cleaned # filter_df[j].text_cleaned
            /\ \A i \in gated :
                  \E j \in out :
                      /\ filter_df[j].text_cleaned = filter_df[i].text_cleaned
                      /\ \A l \in gated :
                            filter_df[l].text_cleaned = filter_df[i].text_cleaned => j <= l

\* ------------------------------------------------- claims on lemmatization.py
\* C18: over any sequence of lemmatization calls that pass no pipeline, each
\* model's pipeline is constructed at most once, and every call uses that one
\* instance.
C18_PipelineConstructedOnce ==
    /\ \A m \in Models : built[m] <= 1
    /\ call.instance <= 1

IsLowercase(w) == lower(w) = w

\* C19: every lemma a lemmatization call returns is lowercase, alphabetic,
\* longer than two characters and no stop word, whatever tokens the pipeline gave.
C19_LemmasAreFiltered ==
    call.outcome = "returned" =>
        \A i \in DOMAIN call.lemmas :
            /\ IsLowercase(call.lemmas[i])
            /\ IsAlpha(call.lemmas[i])
            /\ Len(call.lemmas[i]) > 2
            /\ call.lemmas[i] \notin StopWords

\* ----------------------------------------------------- claims on frequency.py
\* str.split(" ")
RECURSIVE Split(_)
Split(key) ==
    IF \A i \in DOMAIN key : key[i] # " " THEN <<key>>
    ELSE LET cut == CHOOSE i \in DOMAIN key :
                        key[i] = " " /\ \A j \in 1..(i - 1) : key[j] # " "
         IN  <<SubSeq(key, 1, cut - 1)>> \o Split(SubSeq(key, cut + 1, Len(key)))

\* the places where a window of n tokens lies inside one row
WindowPlaces ==
    {p \in (DOMAIN lemmas_series) \X (1..MaxListLen) :
        p[2] + ngram_n - 1 <= Len(lemmas_series[p[1]])}

WindowAt(p) == SubSeq(lemmas_series[p[1]], p[2], p[2] + ngram_n - 1)

Occurrences(w) == Cardinality({p \in WindowPlaces : WindowAt(p) = w})

FrequentWindows == {w \in {WindowAt(p) : p \in WindowPlaces} : Occurrences(w) >= min_freq}

\* the result has one row per n-gram that occurs min_freq times or more inside
\* single rows, with its number of occurrences, the largest count first
ExactlyTheFrequentWindows ==
    /\ Len(ngram_rows) = Cardinality(FrequentWindows)
    /\ \A w \in FrequentWindows :
          \E i \in DOMAIN ngram_rows : ngram_rows[i] = <<Join(w), Occurrences(w)>>
    /\ \A i \in DOMAIN ngram_rows : ngram_rows[i][2] >= min_freq
    /\ \A i, j \in DOMAIN ngram_rows : i < j => ngram_rows[i][2] >= ngram_rows[j][2]

NoSpaceInTokens ==
    \A r \in DOMAIN lemmas_series : \A k \in DOMAIN lemmas_series[r] :
        \A i \in DOMAIN lemmas_series[r][k] : lemmas_series[r][k][i] # " "

\* splitting a key on spaces gives back a window of n tokens that occurs as
\* often as the row says
KeysSplitToWindows ==
    \A i \in DOMAIN ngram_rows :
        /\ Len(Split(ngram_rows[i][1])) = ngram_n
        /\ Split(ngram_rows[i][1]) \in FrequentWindows
        /\ Occurrences(Split(ngram_rows[i][1])) = ngram_rows[i][2]

TokenPlaces == DOMAIN Flatten(lemmas_series)

TotalOf(word) == Cardinality({p \in TokenPlaces : Flatten(lemmas_series)[p] = word})

FirstPlaceOf(word) ==
    CHOOSE p \in TokenPlaces :
        /\ Flatten(lemmas_series)[p] = word
        /\ \A q \in 1..(p - 1) : Flatten(lemmas_series)[q] # word

\* C21: word_frequency returns at most top_n rows, one per word, each with the
\* word's total number of occurrences, the largest count first and equal counts
\* in first-encountered order; no word left out has a higher count than a word
\* returned; the worked example with top_n = 2 gives war and army, both 2.
C21_TopWordsByCount ==
    stage = "words" =>
        /\ Len(word_rows) <= top_n
        /\ \A i \in DOMAIN word_rows :
              /\ word_rows[i][1] \in Range(Flatten(lemmas_series))
              /\ word_rows[i][2] = TotalOf(word_rows[i][1])
        /\ \A i, j \in DOMAIN word_rows :
              i < j =>
                  /\ word_rows[i][1] # word_rows[j][1]
                  /\ word_rows[i][2] >= word_rows[j][2]
                  /\ word_rows[i][2] = word_rows[j][2] =>
                        FirstPlaceOf(word_rows[i][1]) < FirstPlaceOf(word_rows[j][1])
        /\ \A w \in Range(Flatten(lemmas_series)) :
              (\A i \in DOMAIN word_rows : word_rows[i][1] # w) =>
                  \A i \in DOMAIN word_rows : TotalOf(w) <= word_rows[i][2]
        /\ (lemmas_series = ExampleLemmas /\ top_n = 2) =>
              word_rows = << <<<<"w", "a", "r">>, 2>>, <<<<"a", "r", "m", "y">>, 2>> >>

C21_Witness ==
    /\ stage = "words"
    /\ lemmas_series = ExampleLemmas
    /\ top_n = 2
    /\ Len(word_rows) = 2

OkTests == {k \in DOMAIN tested : tested[k].ok}

\* C22: scrape_news_domain fetches only discovered entries that pass the hint
\* pre-filter on URL and title, at most max_articles of them; every record kept
\* belongs to such an entry and to an inclusion test that ran on its final text
\* and passed; no record exists before its test.
C22_FetchAndKeepOnlyScreened ==
    /\ \A i \in DOMAIN fetched :
          /\ fetched[i] \in Range(news_entries)
          /\ is_cyprus_hint(fetched[i].url, fetched[i].title)
    /\ Len(fetched) <= max_articles
    /\ Len(tested) <= Len(fetched)
    /\ Len(domain_rows) <= Cardinality(OkTests)
    /\ \A i \in DOMAIN domain_rows :
          /\ has_inclusion(domain_rows[i].text)
          /\ \E k \in OkTests :
                /\ tested[k].url = domain_rows[i].source_url
                /\ tested[k].text = domain_rows[i].text
          /\ \E f \in DOMAIN fetched :
                /\ fetched[f].url = domain_rows[i].source_url
                /\ is_cyprus_hint(fetched[f].url, fetched[f].title)

C22_Witness ==
    /\ stage = "returned"
    /\ Len(domain_rows) = 1
    /\ domain_rows[1].text = TitledEntry.title
    /\ Len(news_entries) > Len(fetched)

YieldedNothing(outcome) == outcome \in {"raised", "empty"}

\* the fetch order of the rows of hits that carry a url
FetchOrderKept(requireLive) ==
    \A i \in DOMAIN hit_rows :
        hit_rows[i].source_url # "" =>
            /\ requireLive => hit_rows[i].live # "none"
            /\ hit_rows[i].archive # "none" => YieldedNothing(hit_rows[i].live)
            /\ (hit_rows[i].text = hit_rows[i].title /\ requireLive) =>
                  /\ YieldedNothing(hit_rows[i].live)
                  /\ YieldedNothing(hit_rows[i].archive)

\* one record per hit taken, in the hits' order, and no fetch ended the loop
OneRowPerHit ==
    /\ stage \in {"articles", "live", "archive", "append", "saved"}
    /\ Len(hit_rows) + Len(hits_left) + (IF stage \in {"live", "archive", "append"} THEN 1 ELSE 0)
          = Len(hit_list)
    /\ \A i \in DOMAIN hit_rows : hit_rows[i].source_url = hit_list[i].url
    /\ stage = "saved" => Len(hit_rows) = Len(hit_list)

\* C23 as stated: every hit with a url has its live URL tried first, the
\* snapshot only after a live fetch that raised or was empty, the title as text
\* only after both yielded nothing; one record per hit, no exception escapes.
C23_EveryHitFetchedLiveFirst ==
    /\ FetchOrderKept(TRUE)
    /\ OneRowPerHit

\* C23, amended: the same when fetch_text is true; with fetch_text false no fetch
\* is made and the title is the text; one record per hit in both cases.
C23_LiveThenArchiveThenTitle ==
    /\ FetchOrderKept(with_text)
    /\ ~with_text =>
          \A i \in DOMAIN hit_rows :
              /\ hit_rows[i].live = "none" /\ hit_rows[i].archive = "none"
              /\ hit_rows[i].text = hit_rows[i].title
    /\ OneRowPerHit

C23_Witness ==
    /\ stage = "saved"
    /\ with_text
    /\ Len(hit_rows) = 2
    /\ hit_rows[1].live = "raised" /\ hit_rows[1].archive = "empty"
    /\ hit_rows[1].text = hit_rows[1].title /\ hit_rows[1].source_url # ""
    /\ hit_rows[2].live = "empty" /\ hit_rows[2].archive = "text"

HasTag(row) == \E c \in Range(Categories) : row.tags[c] = 1

\* C24: for every text tagged, has_inclusion is true exactly when tag_categories
\* sets at least one indicator to 1; the rows filter_messages returned, tagged on
\* the column they were filtered on, all carry a tag; tag_categories keeps the
\* number and the order of the rows.
C24_TagsAgreeWithInclusion ==
    stage = "tagged" =>
        /\ Len(tagged) = Len(Remaining)
        /\ \A k \in DOMAIN tagged :
              /\ tagged[k].message_id = filter_df[Remaining[k]].message_id
              /\ \A c \in Range(Categories) : tagged[k].tags[c] \in {0, 1}
              /\ has_inclusion(TagCell(Remaining[k], tag_col)) <=> HasTag(tagged[k])
        /\ (Len(steps) = 4 /\ tag_col = text_col) =>
              \A k \in DOMAIN tagged : HasTag(tagged[k])

C24_Witness ==
    /\ stage = "tagged"
    /\ Len(steps) = 4
    /\ tag_col = text_col
    /\ Len(tagged) = 2
    /\ \E k \in DOMAIN tagged : TagCell(Remaining[k], tag_col) = UnionText

IsPrefixOf(a, b) == Len(a) <= Len(b) /\ SubSeq(b, 1, Len(a)) = a

\* C25: after an error inside a channel's message loop (flood control or any
\* other), the records collected so far, of that channel and of the earlier ones,
\* stay at the head of all_data unchanged and are in the file the run writes;
\* the channel gets no further record and is not entered again; the next
\* channel's first call comes after the anti-ban pause.
C25_InterruptedChannelKeepsRecords ==
    collector = "telegram" =>
        \A k \in DOMAIN interrupted :
            LET c    == interrupted[k].channel
                kept == interrupted[k].all_data
            IN  /\ IsPrefixOf(kept, rows)
                /\ RowsOf(rows, c) = RowsOf(kept, c)
                /\ \A j \in DOMAIN interrupted : j # k => interrupted[j].channel # c
                /\ src >= c
                /\ src = c => pc \in {"t_flood", "t_pause", "t_write", "done", "aborted"}
                /\ (src = c /\ pc \in {"t_write", "done", "aborted"}) => c = nsrc
                /\ (src = c + 1 /\ pc = "t_entity") =>
                      /\ lastSleep \in {AntiBanMinMs, AntiBanMaxMs}
                      /\ sinceCall >= AntiBanMinMs
                /\ pc = "done" => IsPrefixOf(kept, rawCsv.rows)

C25_Witness ==
    /\ collector = "telegram"
    /\ pc = "done"
    /\ Len(interrupted) = 2
    /\ interrupted[1].channel = 1 /\ Len(interrupted[1].all_data) = 1
    /\ interrupted[2].channel = 2 /\ Len(interrupted[2].all_data) = 2
    /\ flood = 60
    /\ rawCsv.rows = rows /\ Len(rows) = 2

=============================================================================
